---- MODULE Spec2Model ----
(***************************************************************************)
(* Design-token validation helpers of lifan.dev: the CSS custom-property   *)
(* extractor, the var() resolver, the hex colour parser, the WCAG          *)
(* luminance / contrast functions, the duration parser and the token       *)
(* checks built on them (contrast, non-black, durations, spacing); the     *)
(* theme persistence of ThemeToggle; and the EconomicSim widget.           *)
(*                                                                         *)
(* Strings are sequences of one-character strings and are indexed from 0   *)
(* through At and Slice, as the TypeScript source indexes them.  An absent *)
(* result (null) is the empty sequence, a present one a one-element        *)
(* sequence.  A Map<string,string> is a function from names to values.     *)
(***************************************************************************)

EXTENDS Integers, Sequences, FiniteSets, TLC

VARIABLES
    pc,         \* the position of the run: "input" before the operation under
                \* study is called, "done" after; for the theme, the last
                \* operation
    input,      \* how the text under study was assembled (fragments or name/value)
    css,        \* extractCSSVariables: the stylesheet text
    selector,   \* extractCSSVariables: the selector
    variables,  \* extractCSSVariables: the returned Map
    value,      \* resolveVariable: the raw value
    ownVars,    \* resolveVariable: the own-scope Map (`variables` parameter);
                \* the darkVariables of the token checks
    rootVars,   \* resolveVariable: the root-scope Map; the rootVariables of
                \* the token checks
    resolved,   \* resolveVariable: the returned string
    color1,     \* parseColorToRGB / getContrastRatio: first colour string
    color2,     \* getContrastRatio: second colour string
    rgb,        \* parseColorToRGB(color1), or the input of getRelativeLuminance
    luminance,  \* getRelativeLuminance(rgb)
    ratio,      \* getContrastRatio(color1, color2): a number or Null
    transition, \* the duration token or transition value that is parsed
    call,       \* "parse" for parseDurationToMs, "extract" for
                \* extractDurationFromTransition
    duration,   \* the number returned for transition, or Null
    storage,    \* localStorage: the value under THEME_STORAGE_KEY, or Null
    access,     \* localStorage: "ok", "full" or "blocked"
    prefersDark, \* whether (prefers-color-scheme: dark) matches
    mounted,    \* whether ThemeToggle is mounted
    effectPending, \* whether the mount effect of ThemeToggle is still to run
    theme,      \* ThemeToggle: the theme state
    darkClass,  \* whether the root element has the class `dark`
    calls,      \* the arguments of the setStoredTheme calls so far
    returned,   \* what the last getStoredTheme call returned
    threw,      \* whether an exception has left a call
    lastUpdate, \* the argument of the last updateTheme call, or Null
    examined,   \* the pairs or colours a token check examined
    passed,     \* whether the token check passed
    isBlack,    \* isPureBlack(color1)
    price,      \* EconomicSim: the price state
    supply,     \* EconomicSim: the supply state
    view,       \* EconomicSim: what the last render put in the document
    tokens,     \* the entries of rootVariables, in the Map's order
    report,     \* what a run of a token test file produced
    scan        \* the locals of a running extractCSSVariables call

extractVars == <<input, css, selector, variables>>

resolveVars == <<value, ownVars, rootVars, resolved>>

colorVars == <<color1, color2, rgb, luminance, ratio>>

durationVars == <<transition, call, duration>>

themeVars == <<storage, access, prefersDark, mounted, effectPending, theme,
               darkClass, calls, returned, threw, lastUpdate>>

checkVars == <<examined, passed, isBlack>>

simVars == <<price, supply, view>>

tokenVars == <<tokens, report>>

\* the variables of the simulator, the token test files and the stepwise scan
restVars == <<simVars, tokenVars, scan>>

vars == <<pc, extractVars, resolveVars, colorVars, durationVars, themeVars,
          checkVars, restVars>>

(***************************************************************************)
(* JavaScript strings and regular-expression character classes.            *)
(***************************************************************************)
Null == <<>>

Some(x) == <<x>>

\* s[i] with a 0-based index
At(s, i) == s[i + 1]

\* String.prototype.slice(a, b) for 0 <= a, 0 <= b
Slice(s, a, b) ==
    LET e == IF b > Len(s) THEN Len(s) ELSE b
    IN  IF e <= a THEN <<>> ELSE SubSeq(s, a + 1, e)

\* \s of a JavaScript regular expression, which is also what
\* String.prototype.trim removes: its 25 characters.  Space, tab, line feed,
\* carriage return, form feed, U+000B, U+00A0, U+1680 and U+FEFF are written
\* as themselves.  U+2000 to U+200A, U+2028, U+2029, U+202F, U+205F and
\* U+3000 cannot be written in a TLA+ string: such a character is the
\* element "U+2003" (its code point) of the sequence that stands for a text.
WhiteSpace ==
    {" ", "\t", "\n", "\r", "\f", "", " ", " ", "﻿",
     "U+2000", "U+2001", "U+2002", "U+2003", "U+2004", "U+2005", "U+2006",
     "U+2007", "U+2008", "U+2009", "U+200A", "U+2028", "U+2029", "U+202F",
     "U+205F", "U+3000"}

Letters ==
    {"a", "b", "c", "d", "e", "f", "g", "h", "i", "j", "k", "l", "m",
     "n", "o", "p", "q", "r", "s", "t", "u", "v", "w", "x", "y", "z",
     "A", "B", "C", "D", "E", "F", "G", "H", "I", "J", "K", "L", "M",
     "N", "O", "P", "Q", "R", "S", "T", "U", "V", "W", "X", "Y", "Z"}

Digits == {"0", "1", "2", "3", "4", "5", "6", "7", "8", "9"}

\* \w of a JavaScript regular expression
WordChars == Letters \cup Digits \cup {"_"}

\* the class [\w-] of the declaration name
NameChars == WordChars \cup {"-"}

\* whether the literal t occurs in s at 0-based position i
StartsWithAt(s, i, t) ==
    /\ i + Len(t) <= Len(s)
    /\ \A k \in 1..Len(t) : s[i + k] = t[k]

\* String.prototype.includes
Contains(s, t) == \E q \in 0..Len(s) : StartsWithAt(s, q, t)

\* the end of the greedy run \s* that starts at i
RECURSIVE SkipSpaces(_, _)
SkipSpaces(s, i) ==
    IF i < Len(s) /\ At(s, i) \in WhiteSpace THEN SkipSpaces(s, i + 1) ELSE i

\* the end of the greedy run [\w-]* that starts at i
RECURSIVE NameRunEnd(_, _)
NameRunEnd(s, i) ==
    IF i < Len(s) /\ At(s, i) \in NameChars THEN NameRunEnd(s, i + 1) ELSE i

\* the end of the greedy run [^;]* that starts at i
RECURSIVE ValueRunEnd(_, _)
ValueRunEnd(s, i) ==
    IF i < Len(s) /\ At(s, i) # ";" THEN ValueRunEnd(s, i + 1) ELSE i

\* String.prototype.trim
RECURSIVE TrimStart(_)
TrimStart(s) ==
    IF Len(s) > 0 /\ s[1] \in WhiteSpace THEN TrimStart(Tail(s)) ELSE s

RECURSIVE TrimEnd(_)
TrimEnd(s) ==
    IF Len(s) > 0 /\ s[Len(s)] \in WhiteSpace
    THEN TrimEnd(SubSeq(s, 1, Len(s) - 1))
    ELSE s

Trim(s) == TrimEnd(TrimStart(s))

(***************************************************************************)
(* Map<string, string>                                                     *)
(***************************************************************************)
EmptyMap == [k \in {} |-> <<>>]

MapHas(m, k) == k \in DOMAIN m

\* a Map whose set keeps the value a key already has
MapSetKeepFirst(m, k, v) ==
    [x \in (DOMAIN m) \cup {k} |-> IF x \in DOMAIN m THEN m[x] ELSE v]

\* Map.prototype.set: a later set of the same key replaces the value
MapSet(m, k, v) ==
    [x \in (DOMAIN m) \cup {k} |-> IF x = k THEN v ELSE m[x]]

\* Map.prototype.get, undefined being Null
MapGet(m, k) == IF k \in DOMAIN m THEN Some(m[k]) ELSE Null

(***************************************************************************)
(* extractCSSVariables (brace-matching version)                            *)
(***************************************************************************)
\* One attempt of `${escapedSelector}\s*\{` at position p: the index after
\* the opening brace, or -1.  The selector is escaped, so it matches itself.
SelectorMatchEnd(text, sel, p) ==
    IF StartsWithAt(text, p, sel)
    THEN LET j == SkipSpaces(text, p + Len(sel))
         IN  IF j < Len(text) /\ At(text, j) = "{" THEN j + 1 ELSE -1
    ELSE -1

\* selectorRegex.exec(css) with the g flag: the leftmost match at or after
\* lastIndex, as the index after its opening brace, or -1 for null.
RECURSIVE SelectorExec(_, _, _)
SelectorExec(text, sel, lastIndex) ==
    IF lastIndex > Len(text) THEN -1
    ELSE IF SelectorMatchEnd(text, sel, lastIndex) # -1
         THEN SelectorMatchEnd(text, sel, lastIndex)
         ELSE SelectorExec(text, sel, lastIndex + 1)

\* the brace-matching loop: the value of i when it ends
RECURSIVE ScanBlock(_, _, _)
ScanBlock(text, i, depth) ==
    IF i < Len(text) /\ depth > 0
    THEN ScanBlock(text, i + 1,
                   IF At(text, i) = "{" THEN depth + 1
                   ELSE IF At(text, i) = "}" THEN depth - 1
                   ELSE depth)
    ELSE i

\* One attempt of /--([\w-]+):\s*([^;]+);/ at position q: Null, or the
\* record of the two groups and of the index after the match.  \s* gives
\* one character back when the text up to the semicolon is all whitespace.
VarMatchAt(block, q) ==
    IF ~StartsWithAt(block, q, <<"-", "-">>) THEN Null
    ELSE LET n  == NameRunEnd(block, q + 2)
             w  == SkipSpaces(block, n + 1)
             sc == ValueRunEnd(block, n + 1)
             c  == IF w < sc THEN w ELSE sc - 1
         IN  IF /\ n > q + 2
                /\ n < Len(block)
                /\ At(block, n) = ":"
                /\ sc > n + 1
                /\ sc < Len(block)
             THEN Some([name  |-> Slice(block, q + 2, n),
                        val   |-> Slice(block, c, sc),
                        after |-> sc + 1])
             ELSE Null

\* varRegex.exec(block) with the g flag, started at lastIndex
RECURSIVE VarExec(_, _)
VarExec(block, lastIndex) ==
    IF lastIndex > Len(block) THEN Null
    ELSE IF VarMatchAt(block, lastIndex) # Null
         THEN VarMatchAt(block, lastIndex)
         ELSE VarExec(block, lastIndex + 1)

\* the inner while loop: every declaration of the block is set in the map
RECURSIVE ScanDeclarations(_, _, _)
ScanDeclarations(block, lastIndex, m) ==
    LET varMatch == VarExec(block, lastIndex)
    IN  IF varMatch = Null THEN m
        ELSE ScanDeclarations(block, varMatch[1].after,
                 MapSet(m, <<"-", "-">> \o varMatch[1].name,
                        Trim(varMatch[1].val)))

\* the outer while loop, from the regular expression's lastIndex
RECURSIVE ExtractFrom(_, _, _, _)
ExtractFrom(text, sel, lastIndex, m) ==
    LET start == SelectorExec(text, sel, lastIndex)
    IN  IF start = -1 THEN m
        ELSE LET i     == ScanBlock(text, start, 1)
                 block == Slice(text, start, i - 1)
             IN  ExtractFrom(text, sel, start,
                             ScanDeclarations(block, 0, m))

extractCSSVariables(text, sel) == ExtractFrom(text, sel, 0, EmptyMap)

(***************************************************************************)
(* resolveVariable                                                         *)
(***************************************************************************)
VarOpen == <<"v", "a", "r", "(", "-", "-">>

\* the end of the greedy run [^)]* that starts at i
RECURSIVE RefRunEnd(_, _)
RefRunEnd(s, i) ==
    IF i < Len(s) /\ At(s, i) # ")" THEN RefRunEnd(s, i + 1) ELSE i

\* One attempt of /var\(--([^)]+)\)/ at position q: Null or the group.
RefMatchAt(v, q) ==
    IF ~StartsWithAt(v, q, VarOpen) THEN Null
    ELSE LET e == RefRunEnd(v, q + Len(VarOpen))
         IN  IF e > q + Len(VarOpen) /\ e < Len(v)
             THEN Some(Slice(v, q + Len(VarOpen), e))
             ELSE Null

\* value.match(/var\(--([^)]+)\)/): the group of the leftmost match
RECURSIVE RefMatch(_, _)
RefMatch(v, q) ==
    IF q > Len(v) THEN Null
    ELSE IF RefMatchAt(v, q) # Null THEN RefMatchAt(v, q)
         ELSE RefMatch(v, q + 1)

\* the truthiness `||` tests: undefined and the empty string are falsy
Truthy(opt) == opt # Null /\ opt[1] # <<>>

\* a resolver that dereferences the value it found once more
resolveVariableTwice(v, own, root) ==
    LET Step(x) ==
            LET varMatch == RefMatch(x, 0)
            IN  IF varMatch # Null
                THEN LET varName == <<"-", "-">> \o varMatch[1]
                     IN  IF Truthy(MapGet(own, varName)) THEN own[varName]
                         ELSE IF Truthy(MapGet(root, varName))
                         THEN root[varName]
                         ELSE x
                ELSE x
    IN  Step(Step(v))

\* a resolver that gives up with the empty string
resolveVariableOrEmpty(v, own, root) ==
    LET varMatch == RefMatch(v, 0)
    IN  IF varMatch # Null
        THEN LET varName == <<"-", "-">> \o varMatch[1]
             IN  IF Truthy(MapGet(own, varName)) THEN own[varName]
                 ELSE IF Truthy(MapGet(root, varName)) THEN root[varName]
                 ELSE <<>>
        ELSE v

resolveVariable(v, own, root) ==
    LET varMatch == RefMatch(v, 0)
    IN  IF varMatch # Null
        THEN LET varName == <<"-", "-">> \o varMatch[1]
             IN  IF Truthy(MapGet(own, varName)) THEN own[varName]
                 ELSE IF Truthy(MapGet(root, varName)) THEN root[varName]
                 ELSE v
        ELSE v

(***************************************************************************)
(* parseColorToRGB                                                         *)
(***************************************************************************)
LowerHex ==
    <<"0", "1", "2", "3", "4", "5", "6", "7", "8", "9", "a", "b", "c", "d", "e", "f">>

UpperHex ==
    <<"0", "1", "2", "3", "4", "5", "6", "7", "8", "9", "A", "B", "C", "D", "E", "F">>

\* the class [0-9a-fA-F]
HexDigits == {LowerHex[i] : i \in 1..16} \cup {UpperHex[i] : i \in 1..16}

HexDigitValue(c) == (CHOOSE i \in 1..16 : LowerHex[i] = c \/ UpperHex[i] = c) - 1

\* parseInt(s, 16) of a string of hexadecimal digits
RECURSIVE ParseInt16(_)
ParseInt16(s) ==
    IF s = <<>> THEN 0
    ELSE 16 * ParseInt16(SubSeq(s, 1, Len(s) - 1)) + HexDigitValue(s[Len(s)])

\* [0-9a-fA-F]{n} at position i
HexRunAt(s, i, n) ==
    /\ i + n <= Len(s)
    /\ \A k \in 1..n : s[i + k] \in HexDigits

\* the pattern without its closing `$`
HexMatchPrefix(color) ==
    IF Len(color) >= 1 /\ At(color, 0) = "#"
    THEN IF HexRunAt(color, 1, 3) THEN Some(Slice(color, 1, 4)) ELSE Null
    ELSE Null

\* color.match(/^#([0-9a-fA-F]{3}|[0-9a-fA-F]{6})$/): Null or the group.
\* The three-digit alternative is tried first; `$` is the end of the string.
HexMatch(color) ==
    IF Len(color) >= 1 /\ At(color, 0) = "#"
    THEN IF HexRunAt(color, 1, 3) /\ Len(color) = 4
         THEN Some(Slice(color, 1, 4))
         ELSE IF HexRunAt(color, 1, 6) /\ Len(color) = 7
              THEN Some(Slice(color, 1, 7))
              ELSE Null
    ELSE Null

parseColorToRGB(color) ==
    LET hexMatch == HexMatch(color)
    IN  IF hexMatch # Null
        THEN LET hex == hexMatch[1]
             IN  IF Len(hex) = 3
                 THEN Some([r |-> ParseInt16(<<At(hex, 0), At(hex, 0)>>),
                            g |-> ParseInt16(<<At(hex, 1), At(hex, 1)>>),
                            b |-> ParseInt16(<<At(hex, 2), At(hex, 2)>>)])
                 ELSE Some([r |-> ParseInt16(Slice(hex, 0, 2)),
                            g |-> ParseInt16(Slice(hex, 2, 4)),
                            b |-> ParseInt16(Slice(hex, 4, 6))])
        ELSE Null

(***************************************************************************)
(* JavaScript numbers                                                      *)
(*                                                                         *)
(* A number is an IEEE 754 double.  The non-negative ones are modelled,    *)
(* each as the record [m, e] that stands for m * 2^e: m is a natural       *)
(* number written in base 2^15, least significant digit first, and is odd; *)
(* zero is [<<>>, 0] and Infinity is [<<1>>, 1024].  Every operation       *)
(* computes the exact result and rounds it once, to the nearest double,    *)
(* ties to the even significand, as the hardware does.  The functions      *)
(* modelled produce no negative number, and NaN only as the remainder of   *)
(* Infinity, which is compared with 0 where it arises.                     *)
(***************************************************************************)
\* the base of the digits: the product of two digits is below 2^31
LimbBase == 2 ^ 15

\* the number of binary digits of x
RECURSIVE LimbLen(_)
LimbLen(x) == IF x = 0 THEN 0 ELSE 1 + LimbLen(x \div 2)

\* the number of binary digits of a digit
LimbBits == LimbLen(LimbBase - 1)

\* a natural number below 2^30 in base 2^15
BigOfInt(n) ==
    IF n = 0 THEN <<>>
    ELSE IF n < LimbBase THEN <<n>>
    ELSE <<n % LimbBase, n \div LimbBase>>

MaxIn(S) == CHOOSE x \in S : \A y \in S : y <= x

\* without its most significant zero digits
RECURSIVE BigNorm(_)
BigNorm(a) ==
    IF Len(a) > 0 /\ a[Len(a)] = 0 THEN BigNorm(SubSeq(a, 1, Len(a) - 1)) ELSE a

Limb(a, i) == IF i >= 1 /\ i <= Len(a) THEN a[i] ELSE 0

\* -1, 0 or 1 as a < b, a = b or a > b
BigCmp(a, b) ==
    IF Len(a) < Len(b) THEN -1
    ELSE IF Len(a) > Len(b) THEN 1
    ELSE IF a = b THEN 0
    ELSE LET i == MaxIn({j \in 1..Len(a) : a[j] # b[j]})
         IN  IF a[i] < b[i] THEN -1 ELSE 1

\* The digits lo..hi of the number whose digit sums are t, with the carry c
\* into digit lo, followed by the carry out of digit hi; a carry is negative
\* when it is a borrow.
RECURSIVE Propagate(_, _, _, _)
Propagate(t, lo, hi, c) ==
    IF lo = hi THEN <<(t[lo] + c) % LimbBase, (t[lo] + c) \div LimbBase>>
    ELSE LET mid   == (lo + hi) \div 2
             left  == Propagate(t, lo, mid, c)
             right == Propagate(t, mid + 1, hi, left[Len(left)])
         IN  SubSeq(left, 1, Len(left) - 1) \o right

Carried(t) == IF Len(t) = 0 THEN <<>> ELSE BigNorm(Propagate(t, 1, Len(t), 0))

BigAdd(a, b) ==
    Carried([i \in 1..(IF Len(a) >= Len(b) THEN Len(a) ELSE Len(b)) |->
                Limb(a, i) + Limb(b, i)])

\* a - b for a >= b
BigSub(a, b) == Carried([i \in 1..Len(a) |-> a[i] - Limb(b, i)])

\* a * k for 0 <= k <= 2^15
BigMulSmall(a, k) == Carried([i \in 1..Len(a) |-> a[i] * k])

\* a * b, by halves of b
RECURSIVE BigMul(_, _)
BigMul(a, b) ==
    IF Len(a) = 0 \/ Len(b) = 0 THEN <<>>
    ELSE IF Len(b) = 1 THEN BigMulSmall(a, b[1])
    ELSE LET h == Len(b) \div 2
         IN  BigAdd(BigMul(a, BigNorm(SubSeq(b, 1, h))),
                    [i \in 1..h |-> 0] \o BigMul(a, SubSeq(b, h + 1, Len(b))))

\* the number of binary digits of a number
BitLen(a) ==
    IF Len(a) = 0 THEN 0 ELSE LimbBits * (Len(a) - 1) + LimbLen(a[Len(a)])

\* a * 2^s
BigShl(a, s) ==
    IF Len(a) = 0 THEN <<>>
    ELSE [i \in 1..(s \div LimbBits) |-> 0]
         \o BigMulSmall(a, 2 ^ (s % LimbBits))

\* a \div 2^s
BigShr(a, s) ==
    LET w == s \div LimbBits
        r == s % LimbBits
    IN  IF w >= Len(a) THEN <<>>
        ELSE BigNorm([i \in 1..(Len(a) - w) |->
                         (a[i + w] \div 2 ^ r)
                         + (Limb(a, i + w + 1) % 2 ^ r) * 2 ^ (LimbBits - r)])

\* binary digit i of a, counted from 0
BigBit(a, i) == (Limb(a, i \div LimbBits + 1) \div 2 ^ (i % LimbBits)) % 2

\* whether a binary digit below digit i is set
BigLowBits(a, i) ==
    \/ \E j \in 1..(i \div LimbBits) : Limb(a, j) # 0
    \/ Limb(a, i \div LimbBits + 1) % 2 ^ (i % LimbBits) # 0

\* the number of zero binary digits at the low end of a # 0
TrailingZeros(a) ==
    LET first == CHOOSE i \in 1..Len(a) :
                     a[i] # 0 /\ \A j \in 1..(i - 1) : a[j] = 0
        bit   == CHOOSE z \in 0..(LimbBits - 1) :
                     a[first] % 2 ^ (z + 1) # 0 /\ a[first] % 2 ^ z = 0
    IN  LimbBits * (first - 1) + bit

\* the largest q with q * d <= r, for r < d * 2^15 and a d whose most
\* significant digit is at least 2^14
RECURSIVE QuotientDigitFrom(_, _, _)
QuotientDigitFrom(r, d, q) ==
    IF BigCmp(BigMulSmall(d, q), r) > 0 THEN QuotientDigitFrom(r, d, q - 1) ELSE q

QuotientDigit(r, d) ==
    LET n   == Len(d)
        top == Limb(r, n + 1) * LimbBase + Limb(r, n)
        est == top \div d[n]
    IN  QuotientDigitFrom(r, d, IF est >= LimbBase THEN LimbBase - 1 ELSE est)

\* Long division of the digits i..1 of a by d: r is what is left of the
\* digits above i and q the quotient digits found so far.  The result is the
\* quotient and whether the division leaves a remainder.
RECURSIVE BigDivFrom(_, _, _, _, _)
BigDivSubtract(a, d, i, q, cur, digit) ==
    BigDivFrom(a, d, i - 1, BigSub(cur, BigMulSmall(d, digit)), <<digit>> \o q)

BigDivDigit(a, d, i, q, cur) ==
    BigDivSubtract(a, d, i, q, cur, QuotientDigit(cur, d))

BigDivFrom(a, d, i, r, q) ==
    IF i = 0 \/ Len(r) + Len(q) < 0
    THEN [q |-> BigNorm(q), inexact |-> r # <<>>]
    ELSE BigDivDigit(a, d, i, q, BigNorm(<<a[i]>> \o r))

BigDivAll(a, d) == BigDivFrom(a, d, Len(a), <<>>, <<>>)

\* the quotient of a by d # 0, and whether the division leaves a remainder
BigDiv(a, d) ==
    LET s == LimbBits - LimbLen(d[Len(d)])
    IN  BigDivAll(BigShl(a, s), BigShl(d, s))

Zero == [m |-> <<>>, e |-> 0]

Infinity == [m |-> <<1>>, e |-> 1024]

\* the record of m * 2^e, m # 0, with an odd m
Canonical(m, e) ==
    LET z == TrailingZeros(m) IN [m |-> BigShr(m, z), e |-> e + z]

\* The double nearest to (m + f) * 2^e, where 0 <= f < 1 and f # 0 exactly
\* when `sticky`: 53 binary digits are kept, fewer below 2^-1022, and a
\* result of 2^1024 or more is Infinity.
RoundKept(kept, lsb) ==
    IF kept = <<>> THEN Zero
    ELSE IF lsb + BitLen(kept) > 1024 THEN Infinity
    ELSE Canonical(kept, lsb)

RoundDropped(m, sticky, drop, keep, lsb) ==
    RoundKept(IF /\ BigBit(m, drop - 1) = 1
                 /\ \/ sticky
                    \/ BigLowBits(m, drop - 1)
                    \/ BigBit(keep, 0) = 1
              THEN BigAdd(keep, <<1>>) ELSE keep,
              lsb)

RoundToDouble(m, sticky, e) ==
    IF m = <<>> THEN Zero
    ELSE LET lsb == IF e + BitLen(m) - 53 > -1074
                    THEN e + BitLen(m) - 53 ELSE -1074
         IN  IF lsb <= e
             THEN (IF e + BitLen(m) > 1024 THEN Infinity ELSE Canonical(m, e))
             ELSE RoundDropped(m, sticky, lsb - e, BigShr(m, lsb - e), lsb)

\* the double nearest to (a / d) * 2^e
RoundQuotient(res, e) == RoundToDouble(res.q, res.inexact, e)

DoubleOfRatio(a, d, e) ==
    IF a = <<>> THEN Zero
    ELSE LET s == 55 - (BitLen(a) - BitLen(d))
         IN  RoundQuotient(BigDiv(BigShl(a, IF s >= 0 THEN s ELSE 0),
                                  BigShl(d, IF s >= 0 THEN 0 ELSE -s)),
                           e - s)

\* a small natural number as a number
NumberOfInt(n) == IF n = 0 THEN Zero ELSE Canonical(BigOfInt(n), 0)

\* x * y
NumberTimes(x, y) ==
    IF x = Zero \/ y = Zero THEN Zero
    ELSE IF x = Infinity \/ y = Infinity THEN Infinity
    ELSE RoundToDouble(BigMul(x.m, y.m), FALSE, x.e + y.e)

\* x / y for y # 0
NumberDividedBy(x, y) ==
    IF x = Infinity THEN Infinity
    ELSE IF y = Infinity THEN Zero
    ELSE DoubleOfRatio(x.m, y.m, x.e - y.e)

\* x + y; a term below a quarter of the last binary digit of the other
\* leaves the other as it is
NumberPlus(x, y) ==
    IF x = Infinity \/ y = Infinity THEN Infinity
    ELSE IF x = Zero THEN y
    ELSE IF y = Zero THEN x
    ELSE IF x.e + BitLen(x.m) >= y.e + BitLen(y.m) + 55 THEN x
    ELSE IF y.e + BitLen(y.m) >= x.e + BitLen(x.m) + 55 THEN y
    ELSE LET e == IF x.e <= y.e THEN x.e ELSE y.e
         IN  RoundToDouble(BigAdd(BigShl(x.m, x.e - e), BigShl(y.m, y.e - e)),
                           FALSE, e)

\* -1, 0 or 1 as x < y, x = y or x > y
NumberCmp(x, y) ==
    IF x = y THEN 0
    ELSE IF x = Zero THEN -1
    ELSE IF y = Zero THEN 1
    ELSE IF x.e + BitLen(x.m) < y.e + BitLen(y.m) THEN -1
    ELSE IF x.e + BitLen(x.m) > y.e + BitLen(y.m) THEN 1
    ELSE LET e == IF x.e <= y.e THEN x.e ELSE y.e
         IN  BigCmp(BigShl(x.m, x.e - e), BigShl(y.m, y.e - e))

NumberAtLeast(x, y) == NumberCmp(x, y) >= 0

NumberAtMost(x, y) == NumberCmp(x, y) <= 0

\* Math.max and Math.min
NumberMax(x, y) == IF NumberAtLeast(x, y) THEN x ELSE y

NumberMin(x, y) == IF NumberAtMost(x, y) THEN x ELSE y

DigitValue(c) == CHOOSE v \in 0..9 : ToString(v) = c

\* 10^n
RECURSIVE BigPowerOfTen(_)
BigPowerOfTen(n) ==
    IF n <= 4 THEN BigOfInt(10 ^ n)
    ELSE BigMul(BigPowerOfTen(n \div 2), BigPowerOfTen(n - n \div 2))

\* the value of a run of decimal digits
RECURSIVE BigOfDigits(_)
BigOfDigits(s) ==
    IF Len(s) = 0 THEN <<>>
    ELSE IF Len(s) = 1 THEN BigOfInt(DigitValue(s[1]))
    ELSE LET h == Len(s) \div 2
         IN  BigAdd(BigMul(BigOfDigits(SubSeq(s, 1, h)), BigPowerOfTen(Len(s) - h)),
                    BigOfDigits(SubSeq(s, h + 1, Len(s))))

\* parseFloat of the digits `int`, a point and the digits `frac`
NumberOfDecimal(int, frac) ==
    DoubleOfRatio(BigOfDigits(int \o frac), BigPowerOfTen(Len(frac)), 0)

(***************************************************************************)
(* getRelativeLuminance and getContrastRatio, in the double arithmetic of  *)
(* the source.                                                             *)
(***************************************************************************)
\* Math.pow((c / 255 + 0.055) / 1.055, 2.4) for the channel values
\* c = 0..255, each the double that the engine's pow returns
PowTable ==
    <<
        [m |-> <<10627, 11321, 18907, 218>>, e |-> -63],
        [m |-> <<6401, 18895, 30555, 128>>, e |-> -62],
        [m |-> <<31639, 22331, 8114, 75>>, e |-> -61],
        [m |-> <<4641, 21944, 442, 87>>, e |-> -61],
        [m |-> <<30349, 29361, 3878, 3>>, e |-> -56],
        [m |-> <<8397, 17126, 6530, 14>>, e |-> -58],
        [m |-> <<28099, 21196, 14915, 128>>, e |-> -61],
        [m |-> <<21655, 18669, 12854, 144>>, e |-> -61],
        [m |-> <<27691, 21356, 23377, 80>>, e |-> -60],
        [m |-> <<25965, 21158, 18988, 179>>, e |-> -61],
        [m |-> <<3513, 26554, 23512, 49>>, e |-> -59],
        [m |-> <<7321, 27211, 10438, 219>>, e |-> -61],
        [m |-> <<6621, 11801, 30919, 240>>, e |-> -61],
        [m |-> <<937, 32523, 28898, 131>>, e |-> -60],
        [m |-> <<25633, 32218, 29450, 143>>, e |-> -60],
        [m |-> <<25209, 24363, 17406, 156>>, e |-> -60],
        [m |-> <<31013, 13086, 7323, 21>>, e |-> -57],
        [m |-> <<18709, 13985, 22199, 183>>, e |-> -60],
        [m |-> <<23217, 16433, 3410, 99>>, e |-> -59],
        [m |-> <<5941, 503, 11035, 13>>, e |-> -56],
        [m |-> <<24619, 16190, 7392, 229>>, e |-> -60],
        [m |-> <<6029, 17089, 11731, 15>>, e |-> -56],
        [m |-> <<21079, 12022, 14139, 16>>, e |-> -56],
        [m |-> <<8209, 11589, 3114, 35>>, e |-> -57],
        [m |-> <<2787, 13950, 21378, 149>>, e |-> -59],
        [m |-> <<31321, 23006, 26807, 39>>, e |-> -57],
        [m |-> <<17859, 24751, 20378, 84>>, e |-> -58],
        [m |-> <<14089, 21786, 18683, 179>>, e |-> -59],
        [m |-> <<28077, 5406, 18473, 47>>, e |-> -57],
        [m |-> <<13601, 6863, 9890, 201>>, e |-> -59],
        [m |-> <<5821, 13568, 23396, 212>>, e |-> -59],
        [m |-> <<32091, 29849, 8108, 112>>, e |-> -58],
        [m |-> <<14855, 24317, 10615, 118>>, e |-> -58],
        [m |-> <<2111, 275, 5777, 249>>, e |-> -59],
        [m |-> <<12709, 2489, 24917, 32>>, e |-> -56],
        [m |-> <<26225, 25794, 27623, 68>>, e |-> -57],
        [m |-> <<22713, 1602, 8567, 72>>, e |-> -57],
        [m |-> <<18109, 860, 18147, 151>>, e |-> -58],
        [m |-> <<7179, 29551, 25568, 158>>, e |-> -58],
        [m |-> <<10217, 13727, 18054, 41>>, e |-> -56],
        [m |-> <<20677, 22332, 14959, 43>>, e |-> -56],
        [m |-> <<5879, 14349, 27008, 90>>, e |-> -57],
        [m |-> <<31979, 3341, 13700, 47>>, e |-> -56],
        [m |-> <<11739, 2693, 29469, 197>>, e |-> -58],
        [m |-> <<29229, 17606, 19093, 51>>, e |-> -56],
        [m |-> <<3585, 10614, 23519, 6>>, e |-> -53],
        [m |-> <<15853, 89, 29700, 111>>, e |-> -57],
        [m |-> <<27679, 28725, 28380, 232>>, e |-> -58],
        [m |-> <<15845, 5410, 2123, 121>>, e |-> -57],
        [m |-> <<25013, 8971, 19809, 251>>, e |-> -58],
        [m |-> <<27919, 20853, 10838, 16>>, e |-> -54],
        [m |-> <<32659, 9094, 26167, 67>>, e |-> -56],
        [m |-> <<29819, 27846, 21490, 140>>, e |-> -57],
        [m |-> <<13077, 26154, 29867, 72>>, e |-> -56],
        [m |-> <<3345, 7209, 3250, 151>>, e |-> -57],
        [m |-> <<27343, 31299, 15895, 156>>, e |-> -57],
        [m |-> <<2175, 30307, 32462, 80>>, e |-> -56],
        [m |-> <<31373, 17959, 15541, 10>>, e |-> -53],
        [m |-> <<9709, 27447, 27253, 10>>, e |-> -53],
        [m |-> <<10871, 4274, 18656, 89>>, e |-> -56],
        [m |-> <<7415, 27682, 17738, 92>>, e |-> -56],
        [m |-> <<9349, 7639, 29246, 23>>, e |-> -54],
        [m |-> <<10593, 3282, 21757, 24>>, e |-> -54],
        [m |-> <<11891, 19276, 29475, 50>>, e |-> -55],
        [m |-> <<5001, 7168, 32758, 209>>, e |-> -57],
        [m |-> <<24559, 32309, 4236, 54>>, e |-> -55],
        [m |-> <<27281, 15153, 18861, 111>>, e |-> -56],
        [m |-> <<2937, 6726, 31167, 114>>, e |-> -56],
        [m |-> <<22579, 16590, 25265, 236>>, e |-> -57],
        [m |-> <<5855, 5790, 24839, 243>>, e |-> -57],
        [m |-> <<17417, 9207, 11730, 31>>, e |-> -54],
        [m |-> <<1893, 23112, 1458, 129>>, e |-> -56],
        [m |-> <<14357, 20029, 23497, 132>>, e |-> -56],
        [m |-> <<10441, 17290, 7371, 68>>, e |-> -55],
        [m |-> <<24177, 3064, 3986, 70>>, e |-> -55],
        [m |-> <<27501, 1525, 1597, 72>>, e |-> -55],
        [m |-> <<3241, 29466, 208, 74>>, e |-> -55],
        [m |-> <<14667, 8761, 32420, 151>>, e |-> -56],
        [m |-> <<8137, 6629, 453, 78>>, e |-> -55],
        [m |-> <<8463, 1849, 4189, 160>>, e |-> -56],
        [m |-> <<28157, 16573, 4754, 82>>, e |-> -55],
        [m |-> <<7769, 76, 16875, 168>>, e |-> -56],
        [m |-> <<7851, 30354, 6573, 43>>, e |-> -54],
        [m |-> <<19381, 30660, 9444, 44>>, e |-> -54],
        [m |-> <<16575, 27572, 25667, 90>>, e |-> -55],
        [m |-> <<21405, 24660, 20569, 11>>, e |-> -52],
        [m |-> <<22181, 5249, 26971, 23>>, e |-> -53],
        [m |-> <<20277, 29758, 19491, 97>>, e |-> -55],
        [m |-> <<9383, 15, 16095, 12>>, e |-> -52],
        [m |-> <<15497, 5495, 19418, 204>>, e |-> -56],
        [m |-> <<5531, 20979, 11395, 52>>, e |-> -54],
        [m |-> <<19857, 11493, 18469, 53>>, e |-> -54],
        [m |-> <<20865, 23450, 26077, 54>>, e |-> -54],
        [m |-> <<32559, 17396, 2909, 112>>, e |-> -55],
        [m |-> <<15875, 20637, 10726, 14>>, e |-> -52],
        [m |-> <<9893, 30767, 11915, 234>>, e |-> -56],
        [m |-> <<9879, 2599, 30949, 29>>, e |-> -53],
        [m |-> <<16387, 3494, 26696, 244>>, e |-> -56],
        [m |-> <<23975, 4172, 2297, 125>>, e |-> -55],
        [m |-> <<353, 15331, 25111, 127>>, e |-> -55],
        [m |-> <<26097, 32191, 16258, 130>>, e |-> -55],
        [m |-> <<28047, 18278, 8511, 133>>, e |-> -55],
        [m |-> <<16495, 1983, 1873, 136>>, e |-> -55],
        [m |-> <<28639, 11037, 29115, 138>>, e |-> -55],
        [m |-> <<24559, 4532, 28168, 8>>, e |-> -51],
        [m |-> <<10405, 24521, 10708, 72>>, e |-> -54],
        [m |-> <<291, 31938, 19252, 147>>, e |-> -55],
        [m |-> <<7419, 13626, 18216, 150>>, e |-> -55],
        [m |-> <<19957, 18675, 18311, 153>>, e |-> -55],
        [m |-> <<13223, 2755, 9771, 78>>, e |-> -54],
        [m |-> <<24533, 30260, 21911, 159>>, e |-> -55],
        [m |-> <<13791, 17390, 25424, 162>>, e |-> -55],
        [m |-> <<7993, 27310, 31425, 82>>, e |-> -54],
        [m |-> <<22541, 8121, 8973, 42>>, e |-> -53],
        [m |-> <<15009, 4795, 10088, 172>>, e |-> -55],
        [m |-> <<20111, 6197, 29128, 43>>, e |-> -53],
        [m |-> <<6699, 14088, 27490, 178>>, e |-> -55],
        [m |-> <<31055, 24963, 27728, 2>>, e |-> -49],
        [m |-> <<16889, 3920, 14723, 1>>, e |-> -48],
        [m |-> <<4867, 21583, 29569, 188>>, e |-> -55],
        [m |-> <<15197, 10890, 10763, 192>>, e |-> -55],
        [m |-> <<8109, 24505, 1940, 3>>, e |-> -49],
        [m |-> <<17213, 12411, 21113, 99>>, e |-> -54],
        [m |-> <<27659, 16857, 26967, 202>>, e |-> -55],
        [m |-> <<31295, 26412, 6448, 103>>, e |-> -54],
        [m |-> <<22631, 4217, 16389, 52>>, e |-> -53],
        [m |-> <<16387, 22019, 21107, 213>>, e |-> -55],
        [m |-> <<7557, 8486, 21697, 108>>, e |-> -54],
        [m |-> <<6347, 3871, 8529, 55>>, e |-> -53],
        [m |-> <<7799, 26503, 1627, 14>>, e |-> -51],
        [m |-> <<8447, 21533, 9591, 114>>, e |-> -54],
        [m |-> <<22609, 31752, 13534, 232>>, e |-> -55],
        [m |-> <<8685, 29769, 17521, 29>>, e |-> -52],
        [m |-> <<3743, 3645, 16568, 7>>, e |-> -50],
        [m |-> <<16751, 31087, 8435, 15>>, e |-> -51],
        [m |-> <<16339, 14701, 3141, 248>>, e |-> -55],
        [m |-> <<4685, 22129, 3609, 252>>, e |-> -55],
        [m |-> <<17747, 18910, 2655, 128>>, e |-> -54],
        [m |-> <<3005, 9559, 2062, 65>>, e |-> -53],
        [m |-> <<30109, 24427, 3106, 66>>, e |-> -53],
        [m |-> <<14767, 31580, 4461, 67>>, e |-> -53],
        [m |-> <<461, 24815, 6128, 68>>, e |-> -53],
        [m |-> <<21203, 30594, 8107, 69>>, e |-> -53],
        [m |-> <<10647, 19488, 20800, 140>>, e |-> -54],
        [m |-> <<12721, 9814, 26013, 142>>, e |-> -54],
        [m |-> <<14823, 18950, 31855, 144>>, e |-> -54],
        [m |-> <<6883, 713, 5561, 147>>, e |-> -54],
        [m |-> <<12575, 13166, 22063, 18>>, e |-> -51],
        [m |-> <<25051, 31682, 31222, 18>>, e |-> -51],
        [m |-> <<16519, 640, 7694, 19>>, e |-> -51],
        [m |-> <<177, 1488, 5030, 156>>, e |-> -54],
        [m |-> <<19073, 31568, 14682, 158>>, e |-> -54],
        [m |-> <<12399, 3816, 6244, 40>>, e |-> -52],
        [m |-> <<18351, 3365, 3144, 163>>, e |-> -54],
        [m |-> <<8861, 13704, 14723, 165>>, e |-> -54],
        [m |-> <<24085, 31167, 26947, 167>>, e |-> -54],
        [m |-> <<10153, 7694, 7051, 170>>, e |-> -54],
        [m |-> <<17675, 11456, 18955, 21>>, e |-> -51],
        [m |-> <<13995, 1312, 25069, 43>>, e |-> -52],
        [m |-> <<23931, 27575, 16792, 177>>, e |-> -54],
        [m |-> <<8657, 5781, 32517, 89>>, e |-> -53],
        [m |-> <<24697, 6578, 15626, 182>>, e |-> -54],
        [m |-> <<4445, 29055, 32409, 184>>, e |-> -54],
        [m |-> <<533, 14859, 24925, 93>>, e |-> -53],
        [m |-> <<31429, 24662, 2414, 190>>, e |-> -54],
        [m |-> <<16763, 28303, 2646, 24>>, e |-> -51],
        [m |-> <<24075, 9953, 6633, 12>>, e |-> -50],
        [m |-> <<28775, 2601, 27914, 197>>, e |-> -54],
        [m |-> <<23591, 636, 7948, 100>>, e |-> -53],
        [m |-> <<29105, 6717, 4544, 203>>, e |-> -54],
        [m |-> <<12841, 4136, 14144, 6>>, e |-> -49],
        [m |-> <<31485, 32733, 16612, 208>>, e |-> -54],
        [m |-> <<21727, 8775, 20018, 105>>, e |-> -53],
        [m |-> <<24981, 3171, 31364, 213>>, e |-> -54],
        [m |-> <<27365, 18434, 11682, 108>>, e |-> -53],
        [m |-> <<239, 8674, 28586, 54>>, e |-> -52],
        [m |-> <<30177, 10905, 18732, 55>>, e |-> -52],
        [m |-> <<20061, 12172, 3423, 225>>, e |-> -54],
        [m |-> <<19311, 9893, 31834, 113>>, e |-> -53],
        [m |-> <<22393, 7346, 13145, 115>>, e |-> -53],
        [m |-> <<32709, 10507, 22362, 233>>, e |-> -54],
        [m |-> <<31681, 26735, 9558, 118>>, e |-> -53],
        [m |-> <<8461, 25843, 16557, 239>>, e |-> -54],
        [m |-> <<14789, 6346, 14684, 242>>, e |-> -54],
        [m |-> <<25235, 4014, 23133, 122>>, e |-> -53],
        [m |-> <<10153, 10950, 3250, 62>>, e |-> -52],
        [m |-> <<2435, 28128, 13194, 251>>, e |-> -54],
        [m |-> <<24417, 3205, 7040, 127>>, e |-> -53],
        [m |-> <<7769, 22363, 12106, 64>>, e |-> -52],
        [m |-> <<16459, 30119, 8965, 130>>, e |-> -53],
        [m |-> <<6199, 14651, 26834, 131>>, e |-> -53],
        [m |-> <<3077, 23825, 11007, 8>>, e |-> -49],
        [m |-> <<2201, 8849, 28432, 16>>, e |-> -50],
        [m |-> <<1003, 23229, 16998, 136>>, e |-> -53],
        [m |-> <<14199, 32069, 1748, 69>>, e |-> -52],
        [m |-> <<25865, 9542, 27942, 69>>, e |-> -52],
        [m |-> <<13805, 20624, 21543, 70>>, e |-> -52],
        [m |-> <<31621, 21600, 30642, 142>>, e |-> -53],
        [m |-> <<22375, 23829, 9275, 72>>, e |-> -52],
        [m |-> <<1745, 10271, 6814, 146>>, e |-> -53],
        [m |-> <<3147, 29597, 28199, 147>>, e |-> -53],
        [m |-> <<2823, 29129, 17172, 149>>, e |-> -53],
        [m |-> <<9829, 6076, 23755, 4>>, e |-> -48],
        [m |-> <<21133, 22920, 28955, 152>>, e |-> -53],
        [m |-> <<3955, 27700, 18998, 154>>, e |-> -53],
        [m |-> <<18419, 239, 2350, 39>>, e |-> -51],
        [m |-> <<491, 29726, 159, 158>>, e |-> -53],
        [m |-> <<19771, 4367, 24047, 159>>, e |-> -53],
        [m |-> <<19743, 26050, 6036, 20>>, e |-> -50],
        [m |-> <<16941, 7797, 7366, 163>>, e |-> -53],
        [m |-> <<275, 13632, 32335, 164>>, e |-> -53],
        [m |-> <<15841, 17737, 24898, 166>>, e |-> -53],
        [m |-> <<6771, 4247, 8912, 84>>, e |-> -52],
        [m |-> <<31259, 6994, 11113, 170>>, e |-> -53],
        [m |-> <<11299, 1507, 4766, 172>>, e |-> -53],
        [m |-> <<17619, 30298, 24423, 21>>, e |-> -50],
        [m |-> <<27899, 15608, 31059, 43>>, e |-> -51],
        [m |-> <<16023, 6807, 20682, 177>>, e |-> -53],
        [m |-> <<463, 30785, 15796, 179>>, e |-> -53],
        [m |-> <<7381, 12029, 22023, 90>>, e |-> -52],
        [m |-> <<21169, 7336, 7128, 183>>, e |-> -53],
        [m |-> <<19579, 637, 18057, 92>>, e |-> -52],
        [m |-> <<26267, 26476, 32700, 186>>, e |-> -53],
        [m |-> <<26865, 18977, 14828, 94>>, e |-> -52],
        [m |-> <<3499, 15801, 30358, 11>>, e |-> -49],
        [m |-> <<6023, 3381, 24681, 192>>, e |-> -53],
        [m |-> <<6281, 15926, 22071, 48>>, e |-> -51],
        [m |-> <<16495, 28094, 19032, 24>>, e |-> -50],
        [m |-> <<24393, 15307, 20004, 198>>, e |-> -53],
        [m |-> <<8005, 12658, 19191, 200>>, e |-> -53],
        [m |-> <<23973, 7623, 18752, 202>>, e |-> -53],
        [m |-> <<20327, 20346, 18687, 204>>, e |-> -53],
        [m |-> <<31615, 17729, 21133, 51>>, e |-> -51],
        [m |-> <<8351, 15547, 19684, 208>>, e |-> -53],
        [m |-> <<29335, 19031, 10373, 105>>, e |-> -52],
        [m |-> <<30863, 27343, 22186, 212>>, e |-> -53],
        [m |-> <<32609, 1642, 12002, 107>>, e |-> -52],
        [m |-> <<10857, 18508, 26199, 216>>, e |-> -53],
        [m |-> <<23679, 23889, 11788, 27>>, e |-> -50],
        [m |-> <<30787, 24674, 15863, 110>>, e |-> -52],
        [m |-> <<9735, 9724, 25149, 55>>, e |-> -51],
        [m |-> <<19387, 15581, 6007, 225>>, e |-> -53],
        [m |-> <<19185, 31786, 10102, 227>>, e |-> -53],
        [m |-> <<18699, 8777, 14580, 229>>, e |-> -53],
        [m |-> <<4593, 31614, 19439, 231>>, e |-> -53],
        [m |-> <<5953, 10735, 28725, 116>>, e |-> -52],
        [m |-> <<25141, 7636, 32153, 58>>, e |-> -51],
        [m |-> <<4053, 12696, 3551, 238>>, e |-> -53],
        [m |-> <<11603, 10014, 4973, 120>>, e |-> -52],
        [m |-> <<29421, 26152, 20565, 60>>, e |-> -51],
        [m |-> <<13137, 23555, 23893, 244>>, e |-> -53],
        [m |-> <<14603, 12723, 15723, 123>>, e |-> -52],
        [m |-> <<19823, 15574, 19693, 124>>, e |-> -52],
        [m |-> <<2611, 13509, 23857, 125>>, e |-> -52],
        [m |-> <<7513, 16067, 28215, 126>>, e |-> -52],
        [m |-> <<1>>, e |-> 0]
    >>

\* rgb.r / 255 and its like: an element of sRGB
sRGB(c) == NumberDividedBy(NumberOfInt(c), NumberOfInt(255))

\* 0.03928
LinearLimit == NumberOfDecimal(<<"0">>, <<"0", "3", "9", "2", "8">>)

\* 12.92
LinearSlope == NumberOfDecimal(<<"1", "2">>, <<"9", "2">>)

\* c / 12.92
LinearBranch(c) == NumberDividedBy(sRGB(c), LinearSlope)

\* the gamma branch alone
LinearizePowOnly(c) == PowTable[c + 1]

\* the callback of sRGB.map for the channel value c
Linearize(c) ==
    IF NumberAtMost(sRGB(c), LinearLimit) THEN LinearBranch(c)
    ELSE PowTable[c + 1]

\* 0.2126, 0.7152 and 0.0722
RedWeight == NumberOfDecimal(<<"0">>, <<"2", "1", "2", "6">>)

GreenWeight == NumberOfDecimal(<<"0">>, <<"7", "1", "5", "2">>)

BlueWeight == NumberOfDecimal(<<"0">>, <<"0", "7", "2", "2">>)

\* 0.2126 * r + 0.7152 * g + blue * b for the linearised channels
WeightedSum(color, blue) ==
    NumberPlus(NumberPlus(NumberTimes(RedWeight, Linearize(color.r)),
                          NumberTimes(GreenWeight, Linearize(color.g))),
               NumberTimes(blue, Linearize(color.b)))

\* the weighted sum with the blue weight mistyped as 0.0772
getRelativeLuminanceBadWeight(color) ==
    WeightedSum(color, NumberOfDecimal(<<"0">>, <<"0", "7", "7", "2">>))

getRelativeLuminance(color) == WeightedSum(color, BlueWeight)

\* 0.05
ContrastOffset == NumberOfDecimal(<<"0">>, <<"0", "5">>)

\* Math.max and Math.min of two integers
MaxOf(a, b) == IF a >= b THEN a ELSE b

MinOf(a, b) == IF a <= b THEN a ELSE b

\* the ratio of the first colour to the second, not of lighter to darker
getContrastRatioUnordered(c1, c2) ==
    LET rgb1 == parseColorToRGB(c1)
        rgb2 == parseColorToRGB(c2)
    IN  IF rgb1 = Null \/ rgb2 = Null THEN Null
        ELSE Some(NumberDividedBy(
                 NumberPlus(getRelativeLuminance(rgb1[1]), ContrastOffset),
                 NumberPlus(getRelativeLuminance(rgb2[1]), ContrastOffset)))

\* a guard that looks at the first colour only; an unparsed second colour
\* is then taken as black
\* (lighter + 0.05) / (darker + 0.05) for the luminances l1 and l2
RatioOfLuminances(l1, l2) ==
    NumberDividedBy(NumberPlus(NumberMax(l1, l2), ContrastOffset),
                    NumberPlus(NumberMin(l1, l2), ContrastOffset))

getContrastRatioFirstOnly(c1, c2) ==
    LET rgb1 == parseColorToRGB(c1)
        rgb2 == parseColorToRGB(c2)
    IN  IF rgb1 = Null THEN Null
        ELSE Some(RatioOfLuminances(
                      getRelativeLuminance(rgb1[1]),
                      IF rgb2 = Null THEN Zero
                      ELSE getRelativeLuminance(rgb2[1])))

getContrastRatio(c1, c2) ==
    LET rgb1 == parseColorToRGB(c1)
        rgb2 == parseColorToRGB(c2)
    IN  IF rgb1 = Null \/ rgb2 = Null THEN Null
        ELSE Some(RatioOfLuminances(getRelativeLuminance(rgb1[1]),
                                    getRelativeLuminance(rgb2[1])))

(***************************************************************************)
(* Stylesheet texts given to the extractor                                 *)
(***************************************************************************)
\* longest brace-balanced text of SpecExtract, in fragments
MaxFrags == 6

\* longest text of SpecExtract whose braces need not balance, in fragments
MaxLoose == 4

\* longest declaration list of one region of a SpecNested text
MaxBody == 1

\* longest value V of a SpecRoundTrip text, in characters
MaxValueLen == 3

SelDark == <<".", "d">>

SelRoot == <<":", "r">>

NameA == <<"-", "-", "a">>

NameB == <<"-", "-", "b">>

NameC == <<"-", "-", "c">>

\* The fragments a text is assembled from, by name.  `kind` is "open" for
\* the selector with its opening brace, "nested" for the opening of a nested
\* rule, "close" for a closing brace, "decl" for a declaration that ends
\* with its semicolon and "bare" for one that does not.
Fragments ==
    [open   |-> [kind |-> "open",   text |-> <<".", "d", "{">>],
     nested |-> [kind |-> "nested", text |-> <<"n", "{">>],
     close  |-> [kind |-> "close",  text |-> <<"}">>],
     a1     |-> [kind |-> "decl",   text |-> <<"-", "-", "a", ":", "1", ";">>,
                 name |-> NameA,    val  |-> <<"1">>],
     a2     |-> [kind |-> "decl",   text |-> <<"-", "-", "a", ":", " ", "2", " ", ";">>,
                 name |-> NameA,    val  |-> <<"2">>],
     b3     |-> [kind |-> "decl",   text |-> <<"-", "-", "b", ":", "3", ";">>,
                 name |-> NameB,    val  |-> <<"3">>],
     c4     |-> [kind |-> "bare",   text |-> <<"-", "-", "c", ":", "4">>,
                 name |-> NameC,    val  |-> <<"4">>]]

\* the fragments of SpecExtract texts
TextFrags == {"open", "nested", "close", "a1", "a2", "b3", "c4"}

\* the fragments of the three regions of a SpecNested text
BodyFrags == {"a1", "b3", "c4"}

Kind(f) == Fragments[f].kind

TokenNames == {NameA, NameB, NameC}

RECURSIVE SeqsUpTo(_, _)
SeqsUpTo(S, n) ==
    IF n = 0 THEN {<<>>}
    ELSE LET shorter == SeqsUpTo(S, n - 1)
         IN  shorter \cup {Append(q, x) : q \in shorter, x \in S}

RECURSIVE Concat(_)
Concat(fs) ==
    IF fs = <<>> THEN <<>> ELSE Fragments[Head(fs)].text \o Concat(Tail(fs))

\* nesting depth after the first n fragments of fs
RECURSIVE DepthAfter(_, _)
DepthAfter(fs, n) ==
    IF n = 0 THEN 0
    ELSE DepthAfter(fs, n - 1)
         + (IF Kind(fs[n]) \in {"open", "nested"} THEN 1
            ELSE IF Kind(fs[n]) = "close" THEN -1 ELSE 0)

\* every brace of the text has its partner
Balanced(fs) ==
    /\ \A n \in 1..Len(fs) : DepthAfter(fs, n) >= 0
    /\ DepthAfter(fs, Len(fs)) = 0

\* the fragments that change the nesting depth by delta
FragsOfDelta(delta) ==
    {f \in TextFrags : DepthAfter(<<f>>, 1) = delta}

\* the changes of depth a text of at most n fragments, `depth` braces open,
\* may start with and still close every brace
FirstDeltas(n, depth) ==
    {delta \in {-1, 0, 1} :
        n > 0 /\ depth + delta >= 0 /\ depth + delta <= n - 1}

\* the fragment sequences of length at most n that close `depth` open
\* braces and never close one more
RECURSIVE ClosingTexts(_, _)
ClosingTexts(n, depth) ==
    (IF depth = 0 THEN {<<>>} ELSE {})
    \cup {<<p[1]>> \o p[2] :
            p \in UNION {FragsOfDelta(delta)
                            \X ClosingTexts(n - 1, depth + delta) :
                         delta \in FirstDeltas(n, depth)}}

\* the brace-balanced texts of at most n fragments
BalancedTexts(n) == ClosingTexts(n, 0)

\* the brace-balanced texts of SpecExtract
BalancedInputs == BalancedTexts(MaxFrags)

\* the short texts of SpecExtract, with any braces: closing braces with no
\* opening one, blocks never closed
LooseInputs == SeqsUpTo(TextFrags, MaxLoose)

\* selector { A  n{ B }  C }, each region of at most n declarations
NestedTexts(n) ==
    {<<"open">> \o a \o <<"nested">> \o b \o <<"close">> \o c \o <<"close">> :
        a \in SeqsUpTo(BodyFrags, n),
        b \in SeqsUpTo(BodyFrags, n),
        c \in SeqsUpTo(BodyFrags, n)}

ValueChars == {"1", " ", "{", "}", "\""}

\* the text `S { --x: V; }`
RoundTripText(S, x, V) ==
    S \o <<" ", "{", " ">> \o x \o <<":", " ">> \o V \o <<";", " ", "}">>

(***************************************************************************)
(* State machine                                                           *)
(***************************************************************************)
NoText == <<>>

\* the variables of the operations a specification does not exercise
IdleExtract ==
    /\ input = <<>>
    /\ css = NoText
    /\ selector = NoText
    /\ variables = EmptyMap

IdleResolve ==
    /\ value = NoText
    /\ ownVars = EmptyMap
    /\ rootVars = EmptyMap
    /\ resolved = NoText

IdleColor ==
    /\ color1 = NoText
    /\ color2 = NoText
    /\ rgb = Null
    /\ luminance = Zero
    /\ ratio = Null

IdleDuration ==
    /\ transition = NoText
    /\ call = "none"
    /\ duration = Null

IdleTheme ==
    /\ storage = Null
    /\ access = "ok"
    /\ prefersDark = FALSE
    /\ mounted = FALSE
    /\ effectPending = FALSE
    /\ theme = "system"
    /\ darkClass = FALSE
    /\ calls = <<>>
    /\ returned = Null
    /\ threw = FALSE
    /\ lastUpdate = Null

IdleCheck ==
    /\ examined = <<>>
    /\ passed = FALSE
    /\ isBlack = FALSE

IdleSim ==
    /\ price = 0
    /\ supply = 0
    /\ view = Null

IdleTokens ==
    /\ tokens = <<>>
    /\ report = Null

\* no call of extractCSSVariables is being followed step by step
NoScan == [phase |-> "idle"]

IdleScan == scan = NoScan

IdleRest == IdleSim /\ IdleTokens /\ IdleScan

InitExtract ==
    /\ pc = "input"
    /\ input \in BalancedInputs \cup LooseInputs
    /\ css = Concat(input)
    /\ selector = SelDark
    /\ variables = EmptyMap
    /\ IdleResolve
    /\ IdleColor
    /\ IdleDuration /\ IdleTheme /\ IdleCheck
    /\ IdleRest

InitNested ==
    /\ pc = "input"
    /\ input \in NestedTexts(MaxBody)
    /\ css = Concat(input)
    /\ selector = SelDark
    /\ variables = EmptyMap
    /\ IdleResolve
    /\ IdleColor
    /\ IdleDuration /\ IdleTheme /\ IdleCheck
    /\ IdleRest

InitRoundTrip ==
    /\ pc = "input"
    /\ selector \in {SelDark, SelRoot}
    /\ input \in [name : {NameA, NameB}, val : SeqsUpTo(ValueChars, MaxValueLen)]
    /\ css = RoundTripText(selector, input.name, input.val)
    /\ variables = EmptyMap
    /\ IdleResolve
    /\ IdleColor
    /\ IdleDuration /\ IdleTheme /\ IdleCheck
    /\ IdleRest

\* a call of extractCSSVariables(css, selector)
Extract ==
    /\ pc = "input"
    /\ pc' = "done"
    /\ variables' = extractCSSVariables(css, selector)
    /\ UNCHANGED <<input, css, selector, value, ownVars, rootVars, resolved,
                   color1, color2, rgb, luminance, ratio>>
    /\ UNCHANGED <<durationVars, themeVars, checkVars>>
    /\ UNCHANGED restVars

NextExtract == Extract

SpecExtract == InitExtract /\ [][NextExtract]_vars

SpecNested == InitNested /\ [][NextExtract]_vars

SpecRoundTrip == InitRoundTrip /\ [][NextExtract]_vars

(***************************************************************************)
(* Inputs and calls of the resolver                                        *)
(***************************************************************************)
NameM == <<"-", "-", "m">>

\* the text var(<name>)
Ref(name) == <<"v", "a", "r", "(">> \o name \o <<")">>

Black3 == <<"#", "0", "0", "0">>

White3 == <<"#", "f", "f", "f">>

\* raw values: references, literals and near-references
ResolveValues ==
    {Ref(NameA), Ref(NameB), Ref(NameM),
     <<" ">> \o Ref(NameA) \o <<" ">>,
     <<"v", "a", "r", "(", "-", "-", "a", ",", "1", ")">>,
     <<"v", "a", "r", "(", "-", "-", ")">>,
     <<"v", "a", "r", "(", "-", "-", "a">>,
     White3, <<>>}

\* the values a Map of the resolver holds
MapValues == {<<>>, Black3, White3, Ref(NameB)}

\* the Maps over the names --a and --b
ScopeMaps ==
    UNION {[D -> MapValues] : D \in SUBSET {NameA, NameB}}

InitResolve ==
    /\ pc = "input"
    /\ value \in ResolveValues
    /\ ownVars \in ScopeMaps
    /\ rootVars \in ScopeMaps
    /\ resolved = NoText
    /\ IdleExtract
    /\ IdleColor
    /\ IdleDuration /\ IdleTheme /\ IdleCheck
    /\ IdleRest

\* a call of resolveVariable(value, ownVars, rootVars)
Resolve ==
    /\ pc = "input"
    /\ pc' = "resolved"
    /\ resolved' = resolveVariable(value, ownVars, rootVars)
    /\ UNCHANGED <<input, css, selector, variables, value, ownVars, rootVars,
                   color1, color2, rgb, luminance, ratio>>
    /\ UNCHANGED <<durationVars, themeVars, checkVars>>
    /\ UNCHANGED restVars

\* the resolved value is handed to the colour parser
ParseResolved ==
    /\ pc = "resolved"
    /\ pc' = "done"
    /\ color1' = resolved
    /\ rgb' = parseColorToRGB(resolved)
    /\ UNCHANGED <<input, css, selector, variables, value, ownVars, rootVars,
                   resolved, color2, luminance, ratio>>
    /\ UNCHANGED <<durationVars, themeVars, checkVars>>
    /\ UNCHANGED restVars

NextResolve == Resolve \/ ParseResolved

SpecResolve == InitResolve /\ [][NextResolve]_vars

\* Maps whose values are literals or references to --a and --b: chains of
\* two references and cycles
ChainValues == {Black3, Ref(NameA), Ref(NameB)}

ChainMaps == UNION {[D -> ChainValues] : D \in SUBSET {NameA, NameB}}

InitChain ==
    /\ pc = "input"
    /\ value \in {Ref(NameA), Ref(NameB)}
    /\ ownVars \in ChainMaps
    /\ rootVars \in ChainMaps
    /\ resolved = NoText
    /\ IdleExtract /\ IdleColor /\ IdleDuration /\ IdleTheme /\ IdleCheck
    /\ IdleRest

SpecChain == InitChain /\ [][NextResolve]_vars

(***************************************************************************)
(* Inputs and calls of the colour functions                                *)
(***************************************************************************)
\* longest run of sample digits of a SpecParse colour string
MaxHexLen == 8

HexSample == {"0", "a", "E"}

ColorPrefixes == {<<>>, <<"#">>, <<"#", "g">>}

ColorSuffixes == {<<>>, <<" ">>, <<"g">>}

OtherColorForms ==
    {<<"r", "e", "d">>,
     <<"r", "g", "b", "(", "0", ",", "0", ",", "0", ")">>,
     <<"h", "s", "l", "(", "0", ",", "0", "%", ",", "0", "%", ")">>,
     <<" ", "#", "0", "0", "0">>,
     <<"#", "0", "0", "0", "\n">>,
     Ref(NameM)}

\* colour strings with at most n sample digits, and the other forms
ParseInputs(n) ==
    {p \o d \o x : p \in ColorPrefixes, d \in SeqsUpTo(HexSample, n),
                   x \in ColorSuffixes}
    \cup OtherColorForms

InitParse ==
    /\ pc = "input"
    /\ color1 \in ParseInputs(MaxHexLen)
    /\ color2 = NoText
    /\ rgb = Null
    /\ luminance = Zero
    /\ ratio = Null
    /\ IdleExtract
    /\ IdleResolve
    /\ IdleDuration /\ IdleTheme /\ IdleCheck
    /\ IdleRest

\* a call of parseColorToRGB(color1)
ParseColor ==
    /\ pc = "input"
    /\ pc' = "done"
    /\ rgb' = parseColorToRGB(color1)
    /\ UNCHANGED <<input, css, selector, variables, value, ownVars, rootVars,
                   resolved, color1, color2, luminance, ratio>>
    /\ UNCHANGED <<durationVars, themeVars, checkVars>>
    /\ UNCHANGED restVars

NextParse == ParseColor

SpecParse == InitParse /\ [][NextParse]_vars

ShortDigits == {"0", "1", "8", "f"}

\* colour strings given to getContrastRatio
ContrastColors ==
    {<<"#", x, y, z>> : x \in ShortDigits, y \in ShortDigits, z \in ShortDigits}
    \cup {<<"#", "0", "2", "2">>, <<"#", "2", "8", "d">>,
          <<"#", "0", "3", "1">>, <<"#", "e", "6", "5">>}
    \cup {<<"#", "0", "0", "0", "0", "0", "0">>,
          <<"#", "f", "f", "f", "f", "f", "f">>,
          <<"#", "F", "F", "F", "F", "F", "F">>,
          <<"#", "0", "f", "1", "7", "2", "a">>,
          <<"#", "f", "8", "f", "a", "f", "c">>,
          <<"#", "8", "0", "8", "0", "8", "0">>,
          <<"#", "0", "0", "0", "0">>,
          <<"#", "g", "g", "g">>,
          <<"r", "e", "d">>,
          Ref(NameM),
          <<>>}

InitContrast ==
    /\ pc = "input"
    /\ color1 \in ContrastColors
    /\ color2 \in ContrastColors
    /\ rgb = Null
    /\ luminance = Zero
    /\ ratio = Null
    /\ IdleExtract
    /\ IdleResolve
    /\ IdleDuration /\ IdleTheme /\ IdleCheck
    /\ IdleRest

\* a call of getContrastRatio(color1, color2)
ContrastRatio ==
    /\ pc = "input"
    /\ pc' = "done"
    /\ ratio' = getContrastRatio(color1, color2)
    /\ UNCHANGED <<input, css, selector, variables, value, ownVars, rootVars,
                   resolved, color1, color2, rgb, luminance>>
    /\ UNCHANGED <<durationVars, themeVars, checkVars>>
    /\ UNCHANGED restVars

NextContrast == ContrastRatio

SpecContrast == InitContrast /\ [][NextContrast]_vars

\* a channel of an RGB value
Channel == 0..255

ChannelSample == {0, 128, 255}

\* RGB values: one channel takes every value, the other two sample values
LuminanceInputs ==
    [r : Channel, g : ChannelSample, b : ChannelSample]
    \cup [r : ChannelSample, g : Channel, b : ChannelSample]
    \cup [r : ChannelSample, g : ChannelSample, b : Channel]

InitLuminance ==
    /\ pc = "input"
    /\ rgb \in {Some(c) : c \in LuminanceInputs}
    /\ color1 = NoText
    /\ color2 = NoText
    /\ luminance = Zero
    /\ ratio = Null
    /\ IdleExtract
    /\ IdleResolve
    /\ IdleDuration /\ IdleTheme /\ IdleCheck
    /\ IdleRest

\* a call of getRelativeLuminance(rgb)
Luminance ==
    /\ pc = "input"
    /\ pc' = "done"
    /\ luminance' = getRelativeLuminance(rgb[1])
    /\ UNCHANGED <<input, css, selector, variables, value, ownVars, rootVars,
                   resolved, color1, color2, rgb, ratio>>
    /\ UNCHANGED <<durationVars, themeVars, checkVars>>
    /\ UNCHANGED restVars

NextLuminance == Luminance

SpecLuminance == InitLuminance /\ [][NextLuminance]_vars

(***************************************************************************)
(* parseDurationToMs and extractDurationFromTransition                     *)
(***************************************************************************)
\* the end of the greedy run \d* that starts at i
RECURSIVE DigitRunEnd(_, _)
DigitRunEnd(s, i) ==
    IF i < Len(s) /\ At(s, i) \in Digits THEN DigitRunEnd(s, i + 1) ELSE i

\* ^(\d+(?:\.\d+)?) : the number at the start of s, its integer digits and
\* its decimals, or Null
NumberPrefix(s) ==
    LET a == DigitRunEnd(s, 0)
        b == IF a < Len(s) /\ At(s, a) = "." THEN DigitRunEnd(s, a + 1) ELSE a
    IN  IF a = 0 THEN Null
        ELSE IF b > a + 1
             THEN Some([int |-> Slice(s, 0, a), frac |-> Slice(s, a + 1, b),
                        end |-> b])
             ELSE Some([int |-> Slice(s, 0, a), frac |-> <<>>, end |-> a])

\* ^(\d+(?:\.\d+)?)\s*<unit> : group 1 of the match, or Null
UnitMatch(s, unit) ==
    LET n == NumberPrefix(s)
    IN  IF n # Null /\ StartsWithAt(s, SkipSpaces(s, n[1].end), unit)
        THEN n ELSE Null

\* parseFloat of group 1 of a match
parseFloat(n) == NumberOfDecimal(n.int, n.frac)

\* parseDurationToMs(duration)
parseDurationToMs(d) ==
    LET msMatch == UnitMatch(d, <<"m", "s">>)
        sMatch == UnitMatch(d, <<"s">>)
    IN  IF msMatch # Null
        THEN Some(parseFloat(msMatch[1]))
        ELSE IF sMatch # Null
        THEN Some(NumberTimes(parseFloat(sMatch[1]), NumberOfInt(1000)))
        ELSE Null

\* the end of the run of non-whitespace characters that starts at i
RECURSIVE PartEnd(_, _)
PartEnd(s, i) ==
    IF i < Len(s) /\ At(s, i) \notin WhiteSpace THEN PartEnd(s, i + 1) ELSE i

\* transition.split(/\s+/) from position i on
RECURSIVE SplitFrom(_, _)
SplitFrom(s, i) ==
    LET e == PartEnd(s, i)
    IN  IF e = Len(s) THEN <<Slice(s, i, e)>>
        ELSE <<Slice(s, i, e)>> \o SplitFrom(s, SkipSpaces(s, e))

SplitOnWhiteSpace(s) == SplitFrom(s, 0)

\* the loop over the parts, from part k on
RECURSIVE FirstDuration(_, _)
FirstDuration(parts, k) ==
    IF k > Len(parts) THEN Null
    ELSE IF parseDurationToMs(parts[k]) # Null THEN parseDurationToMs(parts[k])
    ELSE FirstDuration(parts, k + 1)

extractDurationFromTransition(t) == FirstDuration(SplitOnWhiteSpace(t), 1)

(***************************************************************************)
(* Inputs and calls of the duration parser                                 *)
(***************************************************************************)
\* largest millisecond count whose spellings are parsed
MaxMs == 1100

\* most parts of a transition value
MaxParts == 3

\* the decimal digits of a natural number
RECURSIVE DigitsOf(_)
DigitsOf(n) ==
    IF n < 10 THEN <<ToString(n)>>
    ELSE DigitsOf(n \div 10) \o <<ToString(n % 10)>>

\* a run of digits without its trailing zeros
RECURSIVE StripZeros(_)
StripZeros(s) ==
    IF Len(s) > 0 /\ s[Len(s)] = "0"
    THEN StripZeros(SubSeq(s, 1, Len(s) - 1)) ELSE s

\* n milliseconds written in seconds: 150 is 0.15, 1000 is 1, 1001 is 1.001
SecondsSpelling(n) ==
    LET frac == StripZeros(Slice(DigitsOf(1000 + (n % 1000)), 1, 4))
    IN  DigitsOf(n \div 1000)
        \o (IF frac = <<>> THEN <<>> ELSE <<".">> \o frac)

\* the three spellings of n milliseconds
Spelling(n, form) ==
    IF form = "ms" THEN DigitsOf(n) \o <<"m", "s">>
    ELSE IF form = "s" THEN SecondsSpelling(n) \o <<"s">>
    ELSE DigitsOf(n) \o <<"m", "s", " ", "e", "a", "s", "e">>

\* tokens: what precedes the number, the number, the gap, what follows
TokenPrefixes == {<<>>, <<" ">>, <<"-">>, <<"x">>}

TokenNumbers ==
    {<<>>, <<"2">>, <<"1", "5", "0">>, <<"0", ".", "1", "5">>,
     <<"1", ".", "5">>, <<".", "5">>, <<"1", ".">>,
     <<"1", ".", "0", "0", "1">>}

TokenGaps == {<<>>, <<" ">>}

TokenUnits ==
    {<<>>, <<"m", "s">>, <<"s">>, <<"m", "s", "x">>,
     <<"s", "o", "l", "i", "d">>, <<"m", "s", "s">>, <<"x">>, <<"m">>,
     <<"s", "m">>, <<"S">>}

\* the parts a transition value is made of
TransitionParts ==
    {<<"a", "l", "l">>, <<"1", "5", "0", "m", "s">>, <<"0", ".", "3", "s">>,
     <<"2", "s", "o", "l", "i", "d">>, <<"e", "a", "s", "e">>,
     <<"0", "m", "s">>, <<"1", "s">>}

\* parts joined by single spaces
RECURSIVE JoinParts(_)
JoinParts(ps) ==
    IF Len(ps) = 0 THEN <<>>
    ELSE IF Len(ps) = 1 THEN ps[1]
    ELSE ps[1] \o <<" ">> \o JoinParts(Tail(ps))

InitSpelling ==
    /\ pc = "input"
    /\ input \in [ms : 0..MaxMs, form : {"ms", "s", "shorthand"}]
    /\ call = (IF input.form = "shorthand" THEN "extract" ELSE "parse")
    /\ transition = Spelling(input.ms, input.form)
    /\ duration = Null
    /\ css = NoText /\ selector = NoText /\ variables = EmptyMap
    /\ IdleResolve /\ IdleColor /\ IdleTheme /\ IdleCheck
    /\ IdleRest

InitToken ==
    /\ pc = "input"
    /\ input \in [pre : TokenPrefixes, num : TokenNumbers, gap : TokenGaps,
                  unit : TokenUnits]
    /\ call = "parse"
    /\ transition = input.pre \o input.num \o input.gap \o input.unit
    /\ duration = Null
    /\ css = NoText /\ selector = NoText /\ variables = EmptyMap
    /\ IdleResolve /\ IdleColor /\ IdleTheme /\ IdleCheck
    /\ IdleRest

InitTransition ==
    /\ pc = "input"
    /\ input \in [parts : SeqsUpTo(TransitionParts, MaxParts),
                  pad : {<<>>, <<" ">>}]
    /\ call = "extract"
    /\ transition = input.pad \o JoinParts(input.parts) \o input.pad
    /\ duration = Null
    /\ css = NoText /\ selector = NoText /\ variables = EmptyMap
    /\ IdleResolve /\ IdleColor /\ IdleTheme /\ IdleCheck
    /\ IdleRest

\* a call of parseDurationToMs(transition), as for a --duration-* token
ParseDuration ==
    /\ pc = "input"
    /\ call = "parse"
    /\ pc' = "done"
    /\ duration' = parseDurationToMs(transition)
    /\ UNCHANGED <<transition, call>>
    /\ UNCHANGED <<extractVars, resolveVars, colorVars, themeVars, checkVars>>
    /\ UNCHANGED restVars

\* a call of extractDurationFromTransition(transition), as for a
\* --transition-* token
ExtractDuration ==
    /\ pc = "input"
    /\ call = "extract"
    /\ pc' = "done"
    /\ duration' = extractDurationFromTransition(transition)
    /\ UNCHANGED <<transition, call>>
    /\ UNCHANGED <<extractVars, resolveVars, colorVars, themeVars, checkVars>>
    /\ UNCHANGED restVars

NextDuration == ParseDuration \/ ExtractDuration

SpecSpelling == InitSpelling /\ [][NextDuration]_vars

SpecToken == InitToken /\ [][ParseDuration]_vars

SpecTransition == InitTransition /\ [][ExtractDuration]_vars

(***************************************************************************)
(* ThemeToggle: theme persistence in localStorage and the `dark` class     *)
(*                                                                         *)
(* storage is the value under THEME_STORAGE_KEY (Null when the key is      *)
(* missing).  access tells what localStorage does: "ok", "full" (setItem   *)
(* throws, as when the quota is exceeded) or "blocked" (every access       *)
(* throws).  A call returns a record: threw tells whether an exception     *)
(* left the call.                                                          *)
(***************************************************************************)
THEME_STORAGE_KEY == "theme"

Themes == {"light", "dark", "system"}

\* localStorage.getItem(THEME_STORAGE_KEY)
getItem(st, acc) ==
    IF acc = "blocked" THEN [threw |-> TRUE, value |-> Null]
    ELSE [threw |-> FALSE, value |-> st]

\* localStorage.setItem(THEME_STORAGE_KEY, v)
setItem(st, acc, v) ==
    IF acc = "ok" THEN [threw |-> FALSE, storage |-> Some(v)]
    ELSE [threw |-> TRUE, storage |-> st]

\* localStorage.removeItem(THEME_STORAGE_KEY)
removeItem(st, acc) ==
    IF acc = "blocked" THEN [threw |-> TRUE, storage |-> st]
    ELSE [threw |-> FALSE, storage |-> Null]

\* a reader that accepts every member of VALID_THEMES
getStoredThemeAnyValid(st, acc) ==
    LET item == getItem(st, acc)
    IN  IF item.threw THEN [threw |-> FALSE, value |-> Null]
        ELSE IF item.value # Null /\ item.value[1] \in Themes
        THEN [threw |-> FALSE, value |-> item.value]
        ELSE [threw |-> FALSE, value |-> Null]

getStoredTheme(st, acc) ==
    LET item == getItem(st, acc)
    IN  IF item.threw THEN [threw |-> FALSE, value |-> Null]
        ELSE IF item.value = Some("light") \/ item.value = Some("dark")
        THEN [threw |-> FALSE, value |-> item.value]
        ELSE [threw |-> FALSE, value |-> Null]

\* a writer that stores every theme, 'system' too
setStoredThemeAlways(st, acc, t) ==
    [threw |-> FALSE, storage |-> setItem(st, acc, t).storage]

setStoredTheme(st, acc, t) ==
    LET done == IF t = "system" THEN removeItem(st, acc)
                ELSE setItem(st, acc, t)
    IN  [threw |-> FALSE, storage |-> done.storage]

\* an applyTheme that leaves the class alone for 'system'
applyThemeIgnoreSystem(t, cls, prefers) ==
    IF t = "dark" THEN TRUE
    ELSE IF t = "light" THEN FALSE
    ELSE cls

\* an applyTheme that leaves the class alone for 'light'
applyThemeAddOnly(t, cls, prefers) ==
    IF t = "dark" THEN TRUE
    ELSE IF t = "light" THEN cls
    ELSE prefers

\* applyTheme(theme): whether the root element has the `dark` class afterwards
applyTheme(t, cls, prefers) ==
    IF t = "dark" THEN TRUE
    ELSE IF t = "light" THEN FALSE
    ELSE prefers

(***************************************************************************)
(* Calls of the storage functions and the life of the component            *)
(***************************************************************************)
\* most setStoredTheme calls of a run of SpecStorage
MaxCalls == 4

\* what the key may hold when a session starts
StoredValues ==
    {Null, Some("light"), Some("dark"), Some("system"), Some("invalid"),
     Some(""), Some("Dark"), Some("light ")}

AccessModes == {"ok", "full", "blocked"}

\* storage is empty and works; the component is not used
InitStorage ==
    /\ pc = "idle"
    /\ storage = Null
    /\ access = "ok"
    /\ calls = <<>>
    /\ returned = Null
    /\ threw = FALSE
    /\ prefersDark = FALSE
    /\ mounted = FALSE
    /\ effectPending = FALSE
    /\ theme = "system"
    /\ darkClass = FALSE
    /\ lastUpdate = Null
    /\ IdleExtract /\ IdleResolve /\ IdleColor /\ IdleDuration /\ IdleCheck
    /\ IdleRest

\* a freshly loaded document, whatever the key holds
InitTheme ==
    /\ pc = "idle"
    /\ storage \in StoredValues
    /\ access \in AccessModes
    /\ prefersDark \in BOOLEAN
    /\ calls = <<>>
    /\ returned = Null
    /\ threw = FALSE
    /\ mounted = FALSE
    /\ effectPending = FALSE
    /\ theme = "system"
    /\ darkClass = FALSE
    /\ lastUpdate = Null
    /\ IdleExtract /\ IdleResolve /\ IdleColor /\ IdleDuration /\ IdleCheck
    /\ IdleRest

\* a call of setStoredTheme(t)
SetStoredTheme(t) ==
    /\ Len(calls) < MaxCalls
    /\ pc' = "written"
    /\ calls' = Append(calls, t)
    /\ storage' = setStoredTheme(storage, access, t).storage
    /\ threw' = (threw \/ setStoredTheme(storage, access, t).threw)
    /\ UNCHANGED <<access, prefersDark, mounted, effectPending, theme,
                   darkClass, returned, lastUpdate>>
    /\ UNCHANGED <<extractVars, resolveVars, colorVars, durationVars,
                   checkVars>>
    /\ UNCHANGED restVars

\* a call of getStoredTheme()
GetStoredTheme ==
    /\ pc' = "read"
    /\ returned' = getStoredTheme(storage, access).value
    /\ threw' = (threw \/ getStoredTheme(storage, access).threw)
    /\ UNCHANGED <<storage, access, prefersDark, mounted, effectPending,
                   theme, darkClass, calls, lastUpdate>>
    /\ UNCHANGED <<extractVars, resolveVars, colorVars, durationVars,
                   checkVars>>
    /\ UNCHANGED restVars

\* the component mounts: the first render, useState('system'), schedules
\* the effect and touches neither the storage nor the root element
Mount ==
    /\ ~mounted
    /\ pc' = "rendered"
    /\ mounted' = TRUE
    /\ effectPending' = TRUE
    /\ theme' = "system"
    /\ UNCHANGED <<storage, access, prefersDark, darkClass, calls, returned,
                   threw, lastUpdate>>
    /\ UNCHANGED <<extractVars, resolveVars, colorVars, durationVars,
                   checkVars>>
    /\ UNCHANGED restVars

\* the callback of useEffect(..., []) runs, once per mount, after the first
\* render: a saved theme is set and applied
MountEffect ==
    /\ mounted
    /\ effectPending
    /\ pc' = "mounted"
    /\ effectPending' = FALSE
    /\ LET savedTheme == getStoredTheme(storage, access)
       IN  /\ threw' = (threw \/ savedTheme.threw)
           /\ IF savedTheme.value # Null
              THEN /\ theme' = savedTheme.value[1]
                   /\ darkClass' = applyTheme(savedTheme.value[1], darkClass,
                                              prefersDark)
              ELSE UNCHANGED <<theme, darkClass>>
    /\ UNCHANGED <<storage, access, prefersDark, mounted, calls, returned,
                   lastUpdate>>
    /\ UNCHANGED <<extractVars, resolveVars, colorVars, durationVars,
                   checkVars>>
    /\ UNCHANGED restVars

\* a click on one of the three buttons; the buttons are there from the first
\* render on, so a click may come before the mount effect has run
UpdateTheme(newTheme) ==
    /\ mounted
    /\ pc' = "updated"
    /\ darkClass' = applyTheme(newTheme, darkClass, prefersDark)
    /\ storage' = setStoredTheme(storage, access, newTheme).storage
    /\ threw' = (threw \/ setStoredTheme(storage, access, newTheme).threw)
    /\ theme' = newTheme
    /\ lastUpdate' = Some(newTheme)
    /\ UNCHANGED <<access, prefersDark, mounted, effectPending, calls,
                   returned>>
    /\ UNCHANGED <<extractVars, resolveVars, colorVars, durationVars,
                   checkVars>>
    /\ UNCHANGED restVars

\* the component unmounts; the document and its root element stay.  A
\* pending effect is run before the commit that removes the component.
Unmount ==
    /\ mounted
    /\ ~effectPending
    /\ pc' = "unmounted"
    /\ mounted' = FALSE
    /\ UNCHANGED <<storage, access, prefersDark, effectPending, theme,
                   darkClass, calls, returned, threw, lastUpdate>>
    /\ UNCHANGED <<extractVars, resolveVars, colorVars, durationVars,
                   checkVars>>
    /\ UNCHANGED restVars

\* the page is loaded again: a new document, the same storage; an effect
\* that has not run is lost with the old document
Reload ==
    /\ pc # "idle"
    /\ pc' = "idle"
    /\ mounted' = FALSE
    /\ effectPending' = FALSE
    /\ darkClass' = FALSE
    /\ UNCHANGED <<storage, access, prefersDark, theme, calls, returned,
                   threw, lastUpdate>>
    /\ UNCHANGED <<extractVars, resolveVars, colorVars, durationVars,
                   checkVars>>
    /\ UNCHANGED restVars

NextStorage ==
    \/ \E t \in Themes : SetStoredTheme(t)
    \/ GetStoredTheme

SpecStorage == InitStorage /\ [][NextStorage]_vars

NextTheme ==
    \/ Mount
    \/ MountEffect
    \/ \E newTheme \in Themes : UpdateTheme(newTheme)
    \/ Unmount
    \/ Reload
    \/ GetStoredTheme

SpecTheme == InitTheme /\ [][NextTheme]_vars

(***************************************************************************)
(* The token checks: WCAG contrast of the colour pairs, and the non-black  *)
(* dark backgrounds.  rootVars and ownVars are the rootVariables and the   *)
(* darkVariables of the test modules.                                      *)
(***************************************************************************)
TextPrimary ==
    <<"-", "-", "c", "o", "l", "o", "r", "-", "t", "e", "x", "t", "-", "p",
      "r", "i", "m", "a", "r", "y">>

TextSecondary ==
    <<"-", "-", "c", "o", "l", "o", "r", "-", "t", "e", "x", "t", "-", "s",
      "e", "c", "o", "n", "d", "a", "r", "y">>

BgPrimary ==
    <<"-", "-", "c", "o", "l", "o", "r", "-", "b", "g", "-", "p", "r", "i",
      "m", "a", "r", "y">>

BgSecondary ==
    <<"-", "-", "c", "o", "l", "o", "r", "-", "b", "g", "-", "s", "e", "c",
      "o", "n", "d", "a", "r", "y">>

BgTertiary ==
    <<"-", "-", "c", "o", "l", "o", "r", "-", "b", "g", "-", "t", "e", "r",
      "t", "i", "a", "r", "y">>

Neutral900 ==
    <<"-", "-", "c", "o", "l", "o", "r", "-", "n", "e", "u", "t", "r", "a",
      "l", "-", "9", "0", "0">>

Neutral800 ==
    <<"-", "-", "c", "o", "l", "o", "r", "-", "n", "e", "u", "t", "r", "a",
      "l", "-", "8", "0", "0">>

Neutral700 ==
    <<"-", "-", "c", "o", "l", "o", "r", "-", "n", "e", "u", "t", "r", "a",
      "l", "-", "7", "0", "0">>

\* lightModeColorPairs; darkModeColorPairs names the same tokens
lightModeColorPairs ==
    <<[text |-> TextPrimary, bg |-> BgPrimary],
      [text |-> TextPrimary, bg |-> BgSecondary],
      [text |-> TextPrimary, bg |-> BgTertiary],
      [text |-> TextSecondary, bg |-> BgPrimary],
      [text |-> TextSecondary, bg |-> BgSecondary]>>

darkModeColorPairs == lightModeColorPairs

\* m.get(k) || ''
GetOrEmpty(m, k) == IF Truthy(MapGet(m, k)) THEN m[k] ELSE <<>>

\* the callback of .map: a pair with its two colours resolved
ResolvePair(pair, own, root) ==
    [textColor |-> resolveVariable(GetOrEmpty(own, pair.text), own, root),
     bgColor |-> resolveVariable(GetOrEmpty(own, pair.bg), own, root)]

\* pairs.map(...).filter((p) => p.textColor && p.bgColor)
ResolvedPairs(pairs, own, root) ==
    SelectSeq([i \in 1..Len(pairs) |-> ResolvePair(pairs[i], own, root)],
              LAMBDA p : p.textColor # <<>> /\ p.bgColor # <<>>)

resolvedLightPairs(root) == ResolvedPairs(lightModeColorPairs, root, root)

resolvedDarkPairs(dark, root) == ResolvedPairs(darkModeColorPairs, dark, root)

\* WCAG_AA_CONTRAST_RATIO = 4.5
WCAG_AA_CONTRAST_RATIO == NumberOfDecimal(<<"4">>, <<"5">>)

\* ratio !== null and ratio >= WCAG_AA_CONTRAST_RATIO
MeetsAA(r) == r # Null /\ NumberAtLeast(r[1], WCAG_AA_CONTRAST_RATIO)

\* the body of the property and of the loop, for one resolved pair
PairPasses(p) == MeetsAA(getContrastRatio(p.textColor, p.bgColor))

\* for each pair of the list, whether the body holds of it
PairsPass(pairs) == <<>> \o [i \in 1..Len(pairs) |-> PairPasses(pairs[i])]

\* { numRuns: 100 }, the option of every fc.assert of the test files
NumRuns == 100

\* fc.assert(fc.property(fc.constantFrom(...list), body), { numRuns: 100 })
\* runs the body on NumRuns values drawn from the list, not on each of its
\* members: the positions that a run can draw from a list of n values.
\* Nothing is drawn from an empty list, where constantFrom throws.
Draws(n) ==
    IF n = 0 THEN {{}}
    ELSE {drawn \in SUBSET (1..n) :
             drawn # {} /\ Cardinality(drawn) <= NumRuns}

\* a fast-check property over fc.constantFrom(...pairs), holds[i] telling
\* whether the body holds of pairs[i]: the list is not empty and the body
\* holds of what is drawn
PropertyHolds(holds, drawn) ==
    /\ Len(holds) > 0
    /\ \A i \in drawn : holds[i]

\* the three tests of Property 5: the two properties, then the loop over
\* allPairs, which looks at every pair
ContrastCheckPasses(light, dark, drawnLight, drawnDark) ==
    /\ PropertyHolds(light, drawnLight)
    /\ PropertyHolds(dark, drawnDark)
    /\ LET allPairs == light \o dark
       IN  \A i \in 1..Len(allPairs) : allPairs[i]

\* the verdicts a run of the three tests can give
ContrastVerdicts(light, dark) ==
    {ContrastCheckPasses(light, dark, drawnLight, drawnDark) :
        drawnLight \in Draws(Len(light)), drawnDark \in Draws(Len(dark))}

isPureBlack(color) ==
    LET c == parseColorToRGB(color)
    IN  IF c = Null THEN FALSE
        ELSE c[1].r = 0 /\ c[1].g = 0 /\ c[1].b = 0

\* darkBgColors: the literal values of the .dark tokens whose name includes
\* 'bg' (no test reads it)
darkBgColors(dark) ==
    {dark[k] : k \in {x \in DOMAIN dark :
                        /\ Contains(x, <<"b", "g">>)
                        /\ ~StartsWithAt(dark[x], 0, <<"v", "a", "r", "(">>)}}

\* resolvedDarkBgColors: [darkBgPrimary, darkBgSecondary, darkBgTertiary]
\* .filter(Boolean)
resolvedDarkBgColors(root) ==
    SelectSeq(<<GetOrEmpty(root, Neutral900), GetOrEmpty(root, Neutral800),
                GetOrEmpty(root, Neutral700)>>,
              LAMBDA c : c # <<>>)

\* the body of the loop of the second test, for one colour
IsDarkSlate(bgColor) ==
    LET c == parseColorToRGB(bgColor)
    IN  /\ ~isPureBlack(bgColor)
        /\ c # Null
        /\ c[1].r + c[1].g + c[1].b > 0
        /\ c[1].r + c[1].g + c[1].b < 3 * 128

\* the two tests of Property 3: the property over
\* fc.constantFrom(...resolvedDarkBgColors), then the loop over every colour
NonBlackCheckPasses(colors, drawn) ==
    /\ Len(colors) > 0
    /\ \A i \in drawn : ~isPureBlack(colors[i])
    /\ \A i \in 1..Len(colors) : IsDarkSlate(colors[i])

\* the verdicts a run of the two tests can give
NonBlackVerdicts(colors) ==
    {NonBlackCheckPasses(colors, drawn) : drawn \in Draws(Len(colors))}

(***************************************************************************)
(* Inputs and runs of the token checks                                     *)
(***************************************************************************)
Slate900 == <<"#", "0", "f", "1", "7", "2", "a">>

Slate50 == <<"#", "f", "8", "f", "a", "f", "c">>

Black6 == <<"#", "0", "0", "0", "0", "0", "0">>

\* the Maps over the names D whose values come from V
MapsOver(D, V) == UNION {[K -> V] : K \in SUBSET D}

\* the Maps over the text names with values from VT and the background
\* names with values from VB
PairMaps(VT, VB) ==
    {[k \in DOMAIN t \cup DOMAIN b |-> IF k \in DOMAIN t THEN t[k] ELSE b[k]] :
        t \in MapsOver({TextPrimary, TextSecondary}, VT),
        b \in MapsOver({BgPrimary, BgSecondary, BgTertiary}, VB)}

InitContrastCheck ==
    /\ pc = "input"
    /\ rootVars \in PairMaps({Black3}, {Black3, White3})
    /\ ownVars \in PairMaps({White3, Ref(TextPrimary)}, {Black3, Ref(BgPrimary)})
    /\ examined = <<>>
    /\ passed = FALSE
    /\ isBlack = FALSE
    /\ value = NoText
    /\ resolved = NoText
    /\ IdleExtract /\ IdleColor /\ IdleDuration /\ IdleTheme
    /\ IdleRest

InitNonBlackCheck ==
    /\ pc = "input"
    /\ rootVars \in MapsOver({Neutral900, Neutral800, Neutral700},
                            {Slate900, Black6, Slate50, <<>>})
    /\ ownVars \in MapsOver({BgPrimary, BgSecondary},
                           {Black3, Black6, Slate900, Ref(Neutral900)})
    /\ examined = <<>>
    /\ passed = FALSE
    /\ isBlack = FALSE
    /\ value = NoText
    /\ resolved = NoText
    /\ IdleExtract /\ IdleColor /\ IdleDuration /\ IdleTheme
    /\ IdleRest

\* colour values given to isPureBlack
BlackInputs == ContrastColors \cup OtherColorForms \cup {Black6, Slate900}

InitBlack ==
    /\ pc = "input"
    /\ color1 \in BlackInputs
    /\ color2 = NoText
    /\ rgb = Null
    /\ luminance = Zero
    /\ ratio = Null
    /\ IdleCheck
    /\ IdleExtract /\ IdleResolve /\ IdleDuration /\ IdleTheme
    /\ IdleRest

\* a run of the tests of Property 5
ContrastCheck ==
    /\ pc = "input"
    /\ pc' = "done"
    /\ examined' = resolvedLightPairs(rootVars)
                   \o resolvedDarkPairs(ownVars, rootVars)
    /\ passed' \in ContrastVerdicts(
                      PairsPass(resolvedLightPairs(rootVars)),
                      PairsPass(resolvedDarkPairs(ownVars, rootVars)))
    /\ UNCHANGED <<isBlack, extractVars, resolveVars, colorVars, durationVars,
                   themeVars>>
    /\ UNCHANGED restVars

\* a run of the tests of Property 3
NonBlackCheck ==
    /\ pc = "input"
    /\ pc' = "done"
    /\ examined' = resolvedDarkBgColors(rootVars)
    /\ passed' \in NonBlackVerdicts(resolvedDarkBgColors(rootVars))
    /\ UNCHANGED <<isBlack, extractVars, resolveVars, colorVars, durationVars,
                   themeVars>>
    /\ UNCHANGED restVars

\* a call of isPureBlack(color1)
IsPureBlack ==
    /\ pc = "input"
    /\ pc' = "done"
    /\ isBlack' = isPureBlack(color1)
    /\ UNCHANGED <<examined, passed, extractVars, resolveVars, colorVars,
                   durationVars, themeVars>>
    /\ UNCHANGED restVars

SpecContrastCheck == InitContrastCheck /\ [][ContrastCheck]_vars

SpecNonBlackCheck == InitNonBlackCheck /\ [][NonBlackCheck]_vars

SpecBlack == InitBlack /\ [][IsPureBlack]_vars

(***************************************************************************)
(* EconomicSim: the state, the derived values and what a render shows      *)
(***************************************************************************)
\* useState(10) and useState(100)
InitialPrice == 10

InitialSupply == 100

\* the min and max attributes of the two range inputs
PriceMin == 1

PriceMax == 40

SupplyMin == 0

SupplyMax == 200

\* const demand = Math.max(0, 200 - price * 5)
demand(p) == MaxOf(0, 200 - p * 5)

\* const revenue = Math.min(demand, supply) * price
revenue(p, s) == MinOf(demand(p), s) * p

ShortageMessage ==
    "Shortage! Demand exceeds supply. You are missing out on sales."

SurplusMessage ==
    "Surplus! Supply exceeds demand. You have excess inventory."

\* a status region that also reports a shortage when demand equals supply
StatusRegionAtLeast(p, s) ==
    (IF demand(p) >= s THEN <<ShortageMessage>> ELSE <<>>)
    \o (IF demand(p) < s THEN <<SurplusMessage>> ELSE <<>>)

\* the children of <div role="status" aria-live="polite">, in order
StatusRegion(p, s) ==
    (IF demand(p) > s THEN <<ShortageMessage>> ELSE <<>>)
    \o (IF demand(p) < s THEN <<SurplusMessage>> ELSE <<>>)

\* the text of the span in the price label: ${price}
PriceText(p) == <<"$">> \o DigitsOf(p)

\* the text of the span in the supply label: {supply} units
SupplyText(s) == DigitsOf(s) \o <<" ", "u", "n", "i", "t", "s">>

\* the attributes of <input id="price-input" type="range" ...>; the element
\* is given no aria-valuetext, so getAttribute('aria-valuetext') is null
PriceInput(p) ==
    [id |-> "price-input", type |-> "range", min |-> PriceMin,
     max |-> PriceMax, value |-> p, ariaValueText |-> Null]

\* the attributes of <input id="supply-input" type="range" ...>
SupplyInput(s) ==
    [id |-> "supply-input", type |-> "range", min |-> SupplyMin,
     max |-> SupplyMax, value |-> s, ariaValueText |-> Null]

\* what the component returns for a state
Render(p, s) ==
    [priceText |-> PriceText(p),
     priceInput |-> PriceInput(p),
     supplyText |-> SupplyText(s),
     supplyInput |-> SupplyInput(s),
     demand |-> demand(p),
     unitsSold |-> MinOf(demand(p), s),
     revenue |-> revenue(p, s),
     status |-> StatusRegion(p, s)]

\* render(<EconomicSim />)
InitSim ==
    /\ pc = "rendered"
    /\ price = InitialPrice
    /\ supply = InitialSupply
    /\ view = Render(InitialPrice, InitialSupply)
    /\ IdleExtract /\ IdleResolve /\ IdleColor /\ IdleDuration /\ IdleTheme
    /\ IdleCheck /\ IdleTokens /\ IdleScan

\* onChange of the price input: setPrice(Number(e.target.value)), re-render
SetPrice(v) ==
    /\ pc' = "price"
    /\ price' = v
    /\ view' = Render(v, supply)
    /\ UNCHANGED <<supply, tokenVars, scan>>
    /\ UNCHANGED <<extractVars, resolveVars, colorVars, durationVars,
                   themeVars, checkVars>>

\* onChange of the supply input: setSupply(Number(e.target.value)), re-render
SetSupply(v) ==
    /\ pc' = "supply"
    /\ supply' = v
    /\ view' = Render(price, v)
    /\ UNCHANGED <<price, tokenVars, scan>>
    /\ UNCHANGED <<extractVars, resolveVars, colorVars, durationVars,
                   themeVars, checkVars>>

\* onClick of the Reset button
handleReset ==
    /\ pc' = "reset"
    /\ price' = InitialPrice
    /\ supply' = InitialSupply
    /\ view' = Render(InitialPrice, InitialSupply)
    /\ UNCHANGED <<tokenVars, scan>>
    /\ UNCHANGED <<extractVars, resolveVars, colorVars, durationVars,
                   themeVars, checkVars>>

NextSim ==
    \/ \E v \in PriceMin..PriceMax : SetPrice(v)
    \/ \E v \in SupplyMin..SupplyMax : SetSupply(v)
    \/ handleReset

SpecSim == InitSim /\ [][NextSim]_vars

(***************************************************************************)
(* The token test files: effects (Property 2, transition durations) and    *)
(* spacing (Property 1, base-4 scale).  A Map is given by its entries      *)
(* <<key, value>> in the order a for...of loop visits them.                *)
(***************************************************************************)
\* the strings the files look for in a key or a value
KeyTransition == <<"t", "r", "a", "n", "s", "i", "t", "i", "o", "n">>

KeyDuration == <<"d", "u", "r", "a", "t", "i", "o", "n">>

PrefixTransition ==
    <<"-", "-", "t", "r", "a", "n", "s", "i", "t", "i", "o", "n", "-">>

PrefixSpacing == <<"-", "-", "s", "p", "a", "c", "i", "n", "g", "-">>

PrefixVar == <<"v", "a", "r", "(">>

\* the tokens the effects tests look up by name
TransitionFast ==
    <<"-", "-", "t", "r", "a", "n", "s", "i", "t", "i", "o", "n", "-", "f",
      "a", "s", "t">>

TransitionDefault ==
    <<"-", "-", "t", "r", "a", "n", "s", "i", "t", "i", "o", "n", "-", "d",
      "e", "f", "a", "u", "l", "t">>

TransitionSlow ==
    <<"-", "-", "t", "r", "a", "n", "s", "i", "t", "i", "o", "n", "-", "s",
      "l", "o", "w">>

DurationFast ==
    <<"-", "-", "d", "u", "r", "a", "t", "i", "o", "n", "-", "f", "a", "s",
      "t">>

DurationDefault ==
    <<"-", "-", "d", "u", "r", "a", "t", "i", "o", "n", "-", "d", "e", "f",
      "a", "u", "l", "t">>

DurationSlow ==
    <<"-", "-", "d", "u", "r", "a", "t", "i", "o", "n", "-", "s", "l", "o",
      "w">>

\* const MIN_DURATION = 150 and const MAX_DURATION = 300, in milliseconds
MIN_DURATION == 150

MAX_DURATION == 300

\* comparisons of a parsed number with a whole number of milliseconds
DurationAtLeast(d, ms) == NumberAtLeast(d, NumberOfInt(ms))

DurationAtMost(d, ms) == NumberAtMost(d, NumberOfInt(ms))

DurationIs(d, ms) == d = NumberOfInt(ms)

\* the smallest member of a non-empty set of numbers
Least(S) == CHOOSE x \in S : \A y \in S : x <= y

\* whether the loop over rootVariables looks at a key
IsEffectsKey(key) == Contains(key, KeyTransition) \/ Contains(key, KeyDuration)

\* key.includes('duration') ? parseDurationToMs(value)
\*                          : extractDurationFromTransition(value)
TokenDuration(key, val) ==
    IF Contains(key, KeyDuration) THEN parseDurationToMs(val)
    ELSE extractDurationFromTransition(val)

\* the strings extractDurationFromTransition hands to parseDurationToMs:
\* the parts up to the first one that parses
PartsTried(t) ==
    LET parts == SplitOnWhiteSpace(t)
        ok == {i \in 1..Len(parts) : parseDurationToMs(parts[i]) # Null}
        last == IF ok = {} THEN Len(parts) ELSE Least(ok)
    IN  {parts[i] : i \in 1..last}

\* the strings the loop hands to parseDurationToMs for one entry
DurationParserArguments(key, val) ==
    IF ~IsEffectsKey(key) THEN {}
    ELSE IF Contains(key, KeyDuration) THEN {val}
    ELSE PartsTried(val)

\* the loop that fills transitionTokens: an entry whose duration is null is
\* not pushed
RECURSIVE transitionTokens(_)
transitionTokens(entries) ==
    IF entries = <<>> THEN <<>>
    ELSE LET key == entries[1][1]
             val == entries[1][2]
             rest == transitionTokens(Tail(entries))
         IN  IF IsEffectsKey(key) /\ TokenDuration(key, val) # Null
             THEN <<[name |-> key, value |-> val,
                     durationMs |-> TokenDuration(key, val)[1]]>> \o rest
             ELSE rest

\* 'should ensure all transition durations are between 150ms and 300ms':
\* the list is not empty and the property holds of the tokens drawn
AllWithinBounds(tt, drawn) ==
    /\ Len(tt) > 0
    /\ \A i \in drawn :
           /\ DurationAtLeast(tt[i].durationMs, MIN_DURATION)
           /\ DurationAtMost(tt[i].durationMs, MAX_DURATION)

\* transitionTokens.find(t => t.name === name) is defined and its
\* durationMs is ms
FoundWith(tt, name, ms) ==
    LET hits == {i \in 1..Len(tt) : tt[i].name = name}
    IN  hits # {} /\ DurationIs(tt[Least(hits)].durationMs, ms)

\* 'should verify fast transition is 150ms' and the two tests after it
SpeedsAreExact(tt) ==
    /\ FoundWith(tt, TransitionFast, 150)
    /\ FoundWith(tt, DurationFast, 150)
    /\ FoundWith(tt, TransitionDefault, 200)
    /\ FoundWith(tt, DurationDefault, 200)
    /\ FoundWith(tt, TransitionSlow, 300)
    /\ FoundWith(tt, DurationSlow, 300)

\* 'should have exactly 3 transition speed variants'
ExactlyThreeVariants(tt) ==
    Cardinality({i \in 1..Len(tt) :
                    StartsWithAt(tt[i].name, 0, PrefixTransition)}) = 3

\* whether every test of Property 2 passes, the first on what it draws
EffectsTestsPass(tt, drawn) ==
    AllWithinBounds(tt, drawn) /\ SpeedsAreExact(tt) /\ ExactlyThreeVariants(tt)

\* the verdicts a run of the effects test file can give
EffectsVerdicts(tt) ==
    {EffectsTestsPass(tt, drawn) : drawn \in Draws(Len(tt))}

\* what a run of the effects test file leaves behind: the tokens it judged,
\* the strings it handed to parseDurationToMs, and its verdict
EffectsReport(entries, verdict) ==
    [file |-> "effects",
     judged |-> transitionTokens(entries),
     parsed |-> UNION {DurationParserArguments(entries[i][1], entries[i][2]) :
                          i \in 1..Len(entries)},
     loop |-> Null,
     passed |-> verdict]

\* parsePixelValue(value): null for a var( reference, the number for
\* /^(\d+)px$/, null otherwise
parsePixelValue(v) ==
    LET e == DigitRunEnd(v, 0)
    IN  IF StartsWithAt(v, 0, PrefixVar) THEN Null
        ELSE IF e > 0 /\ e + 2 = Len(v) /\ StartsWithAt(v, e, <<"p", "x">>)
        THEN Some(NumberOfDecimal(Slice(v, 0, e), <<>>))
        ELSE Null

\* the loop that fills spacingValues: an entry whose pixel value is null is
\* not pushed
RECURSIVE spacingValues(_)
spacingValues(entries) ==
    IF entries = <<>> THEN <<>>
    ELSE LET key == entries[1][1]
             val == entries[1][2]
             rest == spacingValues(Tail(entries))
         IN  IF StartsWithAt(key, 0, PrefixSpacing)
                /\ parsePixelValue(val) # Null
             THEN <<[name |-> key, value |-> parsePixelValue(val)[1]]>>
                  \o rest
             ELSE rest

\* the strings the loop hands to parsePixelValue
PixelParserArguments(entries) ==
    {entries[i][2] : i \in {j \in 1..Len(entries) :
                               StartsWithAt(entries[j][1], 0, PrefixSpacing)}}

\* value % 4 === 0 for a whole number; the remainder of Infinity is NaN
IsMultipleOf4(x) == x = Zero \/ (x # Infinity /\ x.e >= 2)

\* 'should ensure all spacing values are multiples of 4px': constantFrom
\* needs at least one value, and the property holds of the tokens drawn
AllMultiplesOf4(sv, drawn) ==
    /\ Len(sv) > 0
    /\ \A i \in drawn : IsMultipleOf4(sv[i].value)

\* 'should verify all spacing tokens individually': the loop runs until an
\* expectation throws; `evaluated` counts the tokens it reached, `failed`
\* is the one whose expectation threw
VerifyIndividually(sv) ==
    LET bad == {i \in 1..Len(sv) : ~IsMultipleOf4(sv[i].value)}
    IN  IF bad = {} THEN [evaluated |-> Len(sv), failed |-> Null]
        ELSE [evaluated |-> Least(bad), failed |-> Some(sv[Least(bad)].name)]

expectedScale == <<0, 4, 8, 12, 16, 24, 32, 48, 64, 96>>

\* s without its element at position i
RemoveAt(s, i) == SubSeq(s, 1, i - 1) \o SubSeq(s, i + 1, Len(s))

\* .sort((a, b) => a - b)
RECURSIVE SortNumbers(_)
SortNumbers(s) ==
    IF s = <<>> THEN <<>>
    ELSE LET i == Least({j \in 1..Len(s) :
                            \A k \in 1..Len(s) : NumberAtMost(s[j], s[k])})
         IN  <<s[i]>> \o SortNumbers(RemoveAt(s, i))

\* a comparison with the scale that ignores how often a value occurs
HasExpectedScaleAsSet(sv) ==
    {sv[i].value : i \in 1..Len(sv)}
        = {NumberOfInt(expectedScale[i]) : i \in 1..Len(expectedScale)}

\* 'should have the expected spacing scale values'
HasExpectedScale(sv) ==
    SortNumbers([i \in 1..Len(sv) |-> sv[i].value])
        = [i \in 1..Len(expectedScale) |-> NumberOfInt(expectedScale[i])]

\* whether the two tests that draw nothing pass: the loop and the scale
LoopAndScalePass(sv) ==
    VerifyIndividually(sv).failed = Null /\ HasExpectedScale(sv)

\* whether every test of Property 1 passes, the first on what it draws;
\* `others` is the verdict of the loop and of the scale
SpacingTestsPass(sv, drawn, others) == AllMultiplesOf4(sv, drawn) /\ others

\* the verdicts a run of the spacing test file can give
SpacingVerdicts(sv, others) ==
    {SpacingTestsPass(sv, drawn, others) : drawn \in Draws(Len(sv))}

\* what a run of the spacing test file leaves behind
SpacingReport(entries, verdict) ==
    [file |-> "spacing",
     judged |-> spacingValues(entries),
     parsed |-> PixelParserArguments(entries),
     loop |-> VerifyIndividually(spacingValues(entries)),
     passed |-> verdict]

\* further token names
TransitionExtra ==
    <<"-", "-", "t", "r", "a", "n", "s", "i", "t", "i", "o", "n", "-", "e",
      "x", "t", "r", "a">>

DurationExtra ==
    <<"-", "-", "d", "u", "r", "a", "t", "i", "o", "n", "-", "e", "x", "t",
      "r", "a">>

ShadowSoft ==
    <<"-", "-", "s", "h", "a", "d", "o", "w", "-", "s", "o", "f", "t">>

SpacingExtra ==
    <<"-", "-", "s", "p", "a", "c", "i", "n", "g", "-", "e", "x", "t", "r",
      "a">>

RadiusExtra ==
    <<"-", "-", "r", "a", "d", "i", "u", "s", "-", "e", "x", "t", "r", "a">>

\* values that are no number with a unit
ValueNone == <<"n", "o", "n", "e">>

ValueVarSpeed ==
    <<"v", "a", "r", "(", "-", "-", "s", "p", "e", "e", "d", ")">>

(***************************************************************************)
(* Inputs and runs of the token test files.  A token is described by its   *)
(* name, a number and the form the number is written in; `input` holds     *)
(* the descriptions and `tokens` the entries written from them.            *)
(***************************************************************************)
Describe(name, n, form) == [name |-> name, n |-> n, form |-> form]

\* forms that write a CSS time of n milliseconds
TimeForms == {"ms", "s", "shorthand", "dot"}

\* forms that write n pixels as <digits>px
PixelForms == {"px", "padded"}

\* n milliseconds (below 1000) written in seconds without the leading zero
DotSeconds(n) ==
    <<".">> \o StripZeros(Slice(DigitsOf(1000 + n), 1, 4)) \o <<"s">>

\* the value text of a described token
Written(d) ==
    CASE d.form \in {"ms", "s", "shorthand"} -> Spelling(d.n, d.form)
      [] d.form = "dot" -> DotSeconds(d.n)
      [] d.form = "none" -> ValueNone
      [] d.form = "var" -> ValueVarSpeed
      [] d.form = "px" -> DigitsOf(d.n) \o <<"p", "x">>
      [] d.form = "padded" -> <<"0">> \o DigitsOf(d.n) \o <<"p", "x">>
      [] d.form = "rem" -> DigitsOf(d.n) \o <<"r", "e", "m">>
      [] d.form = "spaced" -> DigitsOf(d.n) \o <<" ", "p", "x">>
      [] d.form = "suffix" -> DigitsOf(d.n) \o <<"p", "x", "x">>
      [] d.form = "ref" -> PrefixVar \o PrefixSpacing \o DigitsOf(d.n) \o <<")">>

RECURSIVE Entries(_)
Entries(descs) ==
    IF descs = <<>> THEN <<>>
    ELSE <<<<descs[1].name, Written(descs[1])>>>> \o Entries(Tail(descs))

InsertAt(s, i, x) == SubSeq(s, 1, i - 1) \o <<x>> \o SubSeq(s, i, Len(s))

\* a token list with one value rewritten, one token added in front or at
\* the end, or one token removed
Variants(std, names, values) ==
    {[std EXCEPT ![i] = Describe(std[i].name, v.n, v.form)] :
        i \in 1..Len(std), v \in values}
    \cup {InsertAt(std, p, Describe(nm, v.n, v.form)) :
            p \in {1, Len(std) + 1}, nm \in names, v \in values}
    \cup {RemoveAt(std, i) : i \in 1..Len(std)}

\* the six tokens the effects tests name
StandardEffects ==
    <<Describe(TransitionFast, 150, "shorthand"),
      Describe(TransitionDefault, 200, "shorthand"),
      Describe(TransitionSlow, 300, "shorthand"),
      Describe(DurationFast, 150, "ms"),
      Describe(DurationDefault, 200, "ms"),
      Describe(DurationSlow, 300, "ms")>>

DurationSamples == {149, 150, 200, 300, 301, 500}

EffectsValues ==
    [n : DurationSamples, form : TimeForms]
    \cup [n : {0}, form : {"none", "var"}]

EffectsInputs ==
    Variants(StandardEffects, {TransitionExtra, DurationExtra, ShadowSoft},
             EffectsValues)

\* --spacing-0 ... --spacing-24 with the pixel values of the scale
SpacingSteps == <<0, 1, 2, 3, 4, 6, 8, 12, 16, 24>>

StandardSpacing ==
    [i \in 1..Len(SpacingSteps) |->
        Describe(PrefixSpacing \o DigitsOf(SpacingSteps[i]),
                 expectedScale[i], "px")]

PixelSamples == {0, 4, 5, 8, 20, 96, 100}

SpacingWrittenValues ==
    [n : PixelSamples, form : PixelForms \cup {"rem", "spaced", "suffix"}]
    \cup [n : {4}, form : {"ref"}]

SpacingInputs ==
    Variants(StandardSpacing, {SpacingExtra, RadiusExtra},
             SpacingWrittenValues)

\* effects.css or spacing.css has been read and its :root block extracted
InitTokenTests ==
    /\ pc = "input"
    /\ input \in [file : {"effects"}, tokens : EffectsInputs]
                 \cup [file : {"spacing"}, tokens : SpacingInputs]
    /\ tokens = Entries(input.tokens)
    /\ report = Null
    /\ css = NoText
    /\ selector = NoText
    /\ variables = EmptyMap
    /\ IdleResolve /\ IdleColor /\ IdleDuration /\ IdleTheme /\ IdleCheck
    /\ IdleSim /\ IdleScan

\* a run of the effects test file
RunEffectsTests ==
    /\ pc = "input"
    /\ input.file = "effects"
    /\ pc' = "done"
    /\ \E verdict \in EffectsVerdicts(transitionTokens(tokens)) :
           report' = EffectsReport(tokens, verdict)
    /\ UNCHANGED <<tokens, simVars, scan>>
    /\ UNCHANGED <<extractVars, resolveVars, colorVars, durationVars,
                   themeVars, checkVars>>

\* a run of the spacing test file
RunSpacingTests ==
    /\ pc = "input"
    /\ input.file = "spacing"
    /\ pc' = "done"
    /\ \E verdict \in SpacingVerdicts(
                           spacingValues(tokens),
                           LoopAndScalePass(spacingValues(tokens))) :
           report' = SpacingReport(tokens, verdict)
    /\ UNCHANGED <<tokens, simVars, scan>>
    /\ UNCHANGED <<extractVars, resolveVars, colorVars, durationVars,
                   themeVars, checkVars>>

NextTokenTests == RunEffectsTests \/ RunSpacingTests

SpecTokenTests == InitTokenTests /\ [][NextTokenTests]_vars

(***************************************************************************)
(* extractCSSVariables, one loop iteration at a time.  `scan` holds the    *)
(* locals of the call: the regular expression's lastIndex, start, i and    *)
(* depth of the brace loop, the block, the lastIndex of varRegex and the   *)
(* Map built so far.                                                       *)
(***************************************************************************)
\* longest text of SpecScan, in fragments
MaxScanFrags == 4

\* the fragments of SpecScan texts; braces need not balance
ScanFrags == {"open", "nested", "close", "a1", "c4"}

\* a brace loop that moves on only past braces
BraceStepOnBraces(text, i, depth) ==
    IF At(text, i) = "{" THEN [i |-> i + 1, depth |-> depth + 1]
    ELSE IF At(text, i) = "}" THEN [i |-> i + 1, depth |-> depth - 1]
    ELSE [i |-> i, depth |-> depth]

\* one iteration of the brace loop: depth++ or depth--, then i++
BraceStep(text, i, depth) ==
    IF At(text, i) = "{" THEN [i |-> i + 1, depth |-> depth + 1]
    ELSE IF At(text, i) = "}" THEN [i |-> i + 1, depth |-> depth - 1]
    ELSE [i |-> i + 1, depth |-> depth]

\* extractCSSVariables(css, selector) has been entered
InitScan ==
    /\ pc = "input"
    /\ input \in SeqsUpTo(ScanFrags, MaxScanFrags)
    /\ css = Concat(input)
    /\ selector \in {SelDark, SelRoot}
    /\ variables = EmptyMap
    /\ scan = [phase |-> "exec", lastIndex |-> 0, start |-> 0, i |-> 0,
               depth |-> 0, block |-> NoText, varIndex |-> 0,
               variables |-> EmptyMap]
    /\ IdleResolve /\ IdleColor /\ IdleDuration /\ IdleTheme /\ IdleCheck
    /\ IdleSim /\ IdleTokens

\* the condition of the outer loop: selectorRegex.exec(css).  A match leaves
\* lastIndex after the opening brace; a failed exec sets lastIndex to 0, and
\* the function returns
ExecSelector ==
    /\ scan.phase = "exec"
    /\ LET start == SelectorExec(css, selector, scan.lastIndex)
       IN  IF start = -1
           THEN /\ scan' = [scan EXCEPT !.phase = "returned",
                                        !.lastIndex = 0]
                /\ variables' = scan.variables
                /\ pc' = "done"
           ELSE /\ scan' = [scan EXCEPT !.phase = "braces",
                                        !.lastIndex = start,
                                        !.start = start,
                                        !.i = start,
                                        !.depth = 1]
                /\ UNCHANGED <<pc, variables>>
    /\ UNCHANGED <<input, css, selector>>
    /\ UNCHANGED <<resolveVars, colorVars, durationVars, themeVars,
                   checkVars, simVars, tokenVars>>

\* one iteration of while (i < css.length && depth > 0)
MatchBrace ==
    /\ scan.phase = "braces"
    /\ scan.i < Len(css) /\ scan.depth > 0
    /\ scan' = [scan EXCEPT !.i = BraceStep(css, scan.i, scan.depth).i,
                            !.depth = BraceStep(css, scan.i, scan.depth).depth]
    /\ UNCHANGED <<pc, extractVars>>
    /\ UNCHANGED <<resolveVars, colorVars, durationVars, themeVars,
                   checkVars, simVars, tokenVars>>

\* the brace loop has ended: const block = css.slice(start, i - 1)
SliceBlock ==
    /\ scan.phase = "braces"
    /\ ~(scan.i < Len(css) /\ scan.depth > 0)
    /\ scan' = [scan EXCEPT !.phase = "decls",
                            !.block = Slice(css, scan.start, scan.i - 1),
                            !.varIndex = 0]
    /\ UNCHANGED <<pc, extractVars>>
    /\ UNCHANGED <<resolveVars, colorVars, durationVars, themeVars,
                   checkVars, simVars, tokenVars>>

\* the condition and the body of the inner loop: varRegex.exec(block), then
\* variables.set; a failed exec sets the lastIndex of varRegex to 0, and the
\* outer loop goes on
ExecDeclaration ==
    /\ scan.phase = "decls"
    /\ LET varMatch == VarExec(scan.block, scan.varIndex)
       IN  IF varMatch = Null
           THEN scan' = [scan EXCEPT !.phase = "exec", !.varIndex = 0]
           ELSE scan' = [scan EXCEPT
                    !.varIndex = varMatch[1].after,
                    !.variables = MapSet(scan.variables,
                                         <<"-", "-">> \o varMatch[1].name,
                                         Trim(varMatch[1].val))]
    /\ UNCHANGED <<pc, extractVars>>
    /\ UNCHANGED <<resolveVars, colorVars, durationVars, themeVars,
                   checkVars, simVars, tokenVars>>

NextScan == ExecSelector \/ MatchBrace \/ SliceBlock \/ ExecDeclaration

SpecScan == InitScan /\ [][NextScan]_vars

\* the call is synchronous code on one thread: a step that can be taken is
\* taken
FairSpecScan == SpecScan /\ WF_vars(NextScan)

(***************************************************************************)
(* Properties of extractCSSVariables                                       *)
(***************************************************************************)
Max(S) == CHOOSE x \in S : \A y \in S : y <= x

\* the occurrences of the selector in a text, as fragment positions
OpenAt(fs) == {i \in 1..Len(fs) : Kind(fs[i]) = "open"}

\* the closing braces that match the brace opened by fragment i: the first
\* one that ends what fragment i opened, none when that is never closed
ClosesOf(fs, i) ==
    {j \in (i + 1)..Len(fs) :
        /\ DepthAfter(fs, j) = DepthAfter(fs, i) - 1
        /\ \A k \in (i + 1)..(j - 1) : DepthAfter(fs, k) >= DepthAfter(fs, i)}

\* The last whole fragment of the block of occurrence i: the one before the
\* matching closing brace.  A block that is never closed runs to the end of
\* the text less its last character: its last fragment is not whole and,
\* with no semicolon after it, adds no declaration.
BlockEnd(fs, i) ==
    IF ClosesOf(fs, i) = {} THEN Len(fs) - 1 ELSE Least(ClosesOf(fs, i)) - 1

\* the declarations with a semicolon among the fragments p..e
SemicolonsFrom(fs, e, p) == {q \in p..e : Kind(fs[q]) = "decl"}

\* The declarations of a block that ends with fragment e, from fragment p
\* on, read from left to right as `--name: value;` with the value running
\* to the next semicolon of the block: a declaration without a semicolon
\* of its own takes the text up to the next semicolon for its value, and
\* the declarations in that text are none of the block's.
RECURSIVE DeclsFrom(_, _, _)
DeclsFrom(fs, e, p) ==
    IF SemicolonsFrom(fs, e, p) = {} THEN {}
    ELSE IF Kind(fs[p]) \in {"decl", "bare"}
    THEN {p} \cup DeclsFrom(fs, e, Least(SemicolonsFrom(fs, e, p)) + 1)
    ELSE DeclsFrom(fs, e, p + 1)

\* the declarations of name k in the block of occurrence i
DeclsIn(fs, i, k) ==
    {p \in DeclsFrom(fs, BlockEnd(fs, i), i + 1) : Fragments[fs[p]].name = k}

\* the fragment with the semicolon that ends the declaration begun at p
DeclEnd(fs, i, p) == Least(SemicolonsFrom(fs, BlockEnd(fs, i), p))

\* the value of the declaration that begins at fragment p of the block of
\* occurrence i: the text up to its semicolon, trimmed
DeclValue(fs, i, p) ==
    IF DeclEnd(fs, i, p) = p THEN Fragments[fs[p]].val
    ELSE Trim(Fragments[fs[p]].val
              \o Concat(SubSeq(fs, p + 1, DeclEnd(fs, i, p) - 1))
              \o SubSeq(Fragments[fs[DeclEnd(fs, i, p)]].text, 1,
                        Len(Fragments[fs[DeclEnd(fs, i, p)]].text) - 1))

\* the occurrences of the selector whose block declares k
Declaring(fs, k) == {i \in OpenAt(fs) : DeclsIn(fs, i, k) # {}}

\* the last declaration of k in the block of the last occurrence declaring
\* k, as the occurrence and the declaration
LastScanned(fs, k) ==
    LET i == Max(Declaring(fs, k))
    IN  [occurrence |-> i, decl |-> Max(DeclsIn(fs, i, k))]

\* the textually last declaration of k that lies in a selector block, in
\* the last occurrence whose block it is a declaration of
TextuallyLast(fs, k) ==
    LET p == Max(UNION {DeclsIn(fs, i, k) : i \in OpenAt(fs)})
    IN  [occurrence |-> Max({i \in OpenAt(fs) : p \in DeclsIn(fs, i, k)}),
         decl |-> p]

\* C1: in a text `selector { A n{ B } C }` every declaration `--name: value;`
\* between the opening brace and its matching close brace, those after the
\* nested rule included, is a key of the returned map.
C1_NestedBlockDeclarationsAreKeys ==
    pc = "done" =>
        \A j \in 1..Len(input) :
            Kind(input[j]) = "decl" => MapHas(variables, Fragments[input[j]].name)

\* C2: extracting with S from the text `S { --x: V; }`, V without a
\* semicolon, returns a map in which --x maps to V trimmed.
C2_RoundTrip ==
    pc = "done" =>
        /\ MapHas(variables, input.name)
        /\ variables[input.name] = Trim(input.val)

\* C3 as claimed: every occurrence of the selector is scanned into one map,
\* and a name declared several times has the value of the textually last
\* of its declarations, a declaration being what the pattern
\* `--name: value;` matches in the block of an occurrence.
C3_TextuallyLastWins ==
    pc = "done" =>
        \A k \in TokenNames :
            /\ MapHas(variables, k) <=> Declaring(input, k) # {}
            /\ Declaring(input, k) # {} =>
                   variables[k] = DeclValue(input,
                                            TextuallyLast(input, k).occurrence,
                                            TextuallyLast(input, k).decl)

\* C3 as amended: every occurrence of the selector is scanned into one map,
\* in the order of the opening braces, whether or not the braces of the
\* text balance.  The block of an occurrence runs to the matching closing
\* brace or, when that is missing, to the end of the text less its last
\* character; its declarations are the successive matches of
\* `--name: value;`, a value running to the next semicolon of the block.
\* The map has exactly the names some block declares, and a name declared
\* several times has the trimmed value of the last declaration in the block
\* of the last occurrence that declares it, which need not be the textually
\* last one when an occurrence lies inside the block of another.
C3_LastScannedWins ==
    pc = "done" =>
        \A k \in TokenNames :
            /\ MapHas(variables, k) <=> Declaring(input, k) # {}
            /\ Declaring(input, k) # {} =>
                   variables[k] = DeclValue(input,
                                            LastScanned(input, k).occurrence,
                                            LastScanned(input, k).decl)

\* C3 witness: two occurrences of the selector, one after the other, declare
\* --a with different values and the map holds the later one.
C3_Witness ==
    /\ pc = "done"
    /\ input = <<"open", "a1", "close", "open", "a2", "close">>
    /\ variables[NameA] = <<"2">>

(***************************************************************************)
(* Properties of resolveVariable                                           *)
(***************************************************************************)
\* the raw value refers to no name that either Map has
Unresolvable ==
    \A k \in (DOMAIN ownVars) \cup (DOMAIN rootVars) : ~Contains(value, Ref(k))

\* C4: for a reference var(--name), the result is the own-scope value
\* whenever the own-scope Map has the name, whatever the root Map holds, and
\* the root value when only the root Map has the name.
C4_OwnScopeThenRoot ==
    pc # "input" =>
        \A k \in {NameA, NameB, NameM} :
            value = Ref(k) =>
                /\ MapHas(ownVars, k) => resolved = ownVars[k]
                /\ ~MapHas(ownVars, k) /\ MapHas(rootVars, k) => resolved = rootVars[k]

\* C5: a value that refers to no name of either Map, or holds no reference
\* at all, is returned unchanged, and the colour parser answers null to the
\* unchanged reference.
C5_UnresolvedIsUnchanged ==
    /\ pc # "input" /\ Unresolvable => resolved = value
    /\ pc = "done" /\ Unresolvable /\ (\E k \in {NameA, NameB, NameM} : value = Ref(k))
           => color1 = value /\ rgb = Null

\* C5 witness: var(--m) is resolved against Maps that hold other names, comes
\* back unchanged and is rejected by the colour parser.
C5_Witness ==
    /\ pc = "done"
    /\ value = Ref(NameM)
    /\ MapHas(ownVars, NameA)
    /\ MapHas(rootVars, NameB)
    /\ resolved = Ref(NameM)
    /\ rgb = Null

(***************************************************************************)
(* Properties of the colour functions                                      *)
(***************************************************************************)
\* `#` followed by exactly n hexadecimal digits and nothing else
WellFormedHex(c, n) ==
    /\ Len(c) = n + 1
    /\ c[1] = "#"
    /\ \A i \in 2..(n + 1) : c[i] \in HexDigits

BlackRGB == [r |-> 0, g |-> 0, b |-> 0]

WhiteRGB == [r |-> 255, g |-> 255, b |-> 255]

\* C6: parseColorToRGB returns a colour exactly for `#` followed by 3 or by 6
\* hexadecimal digits; a 3-digit channel is 17 times its digit, a 6-digit
\* channel the value of its two digits; every channel lies in 0..255.
C6_HexFormsOnly ==
    pc = "done" =>
        /\ rgb # Null <=> WellFormedHex(color1, 3) \/ WellFormedHex(color1, 6)
        /\ WellFormedHex(color1, 3) =>
               rgb[1] = [r |-> 17 * HexDigitValue(color1[2]),
                         g |-> 17 * HexDigitValue(color1[3]),
                         b |-> 17 * HexDigitValue(color1[4])]
        /\ WellFormedHex(color1, 6) =>
               rgb[1] = [r |-> 16 * HexDigitValue(color1[2]) + HexDigitValue(color1[3]),
                         g |-> 16 * HexDigitValue(color1[4]) + HexDigitValue(color1[5]),
                         b |-> 16 * HexDigitValue(color1[6]) + HexDigitValue(color1[7])]
        /\ rgb # Null =>
               rgb[1].r \in 0..255 /\ rgb[1].g \in 0..255 /\ rgb[1].b \in 0..255

\* C6 witness: #aE0 is parsed to (170, 238, 0).
C6_Witness ==
    /\ pc = "done"
    /\ color1 = <<"#", "a", "E", "0">>
    /\ rgb = Some([r |-> 170, g |-> 238, b |-> 0])

\* C7: the contrast ratio of A against B is that of B against A.
C7_ContrastSymmetric ==
    pc = "done" /\ ratio # Null => ratio = getContrastRatio(color2, color1)

\* C7 witness: a ratio was computed with the darker colour given first.
C7_Witness ==
    /\ pc = "done"
    /\ color1 = Black3
    /\ color2 = White3
    /\ ratio = Some(NumberOfInt(21))

\* C8: getContrastRatio returns null exactly when parseColorToRGB rejects
\* one of the two colours.
C8_NullIffUnparseable ==
    pc = "done" =>
        (ratio = Null <=>
            parseColorToRGB(color1) = Null \/ parseColorToRGB(color2) = Null)

\* C8 witness: a parseable colour against an unparseable one gives null.
C8_Witness ==
    /\ pc = "done"
    /\ color1 = White3
    /\ color2 = <<"r", "e", "d">>
    /\ ratio = Null

\* C9: the contrast ratio lies in [1, 21], is exactly 1 for a colour against
\* itself and is 21 exactly for black against white.
C9_RatioRange ==
    pc = "done" /\ ratio # Null =>
        LET c1 == parseColorToRGB(color1)[1]
            c2 == parseColorToRGB(color2)[1]
        IN  /\ NumberAtLeast(ratio[1], NumberOfInt(1))
            /\ NumberAtMost(ratio[1], NumberOfInt(21))
            /\ c1 = c2 => ratio[1] = NumberOfInt(1)
            /\ ratio[1] = NumberOfInt(21) <=> {c1, c2} = {BlackRGB, WhiteRGB}

\* C9 witness: #000000 against #FFFFFF gives 21, and #000 against #000 is
\* covered by the same run.
C9_Witness ==
    /\ pc = "done"
    /\ color1 = <<"#", "0", "0", "0", "0", "0", "0">>
    /\ color2 = <<"#", "F", "F", "F", "F", "F", "F">>
    /\ ratio = Some(NumberOfInt(21))

\* lin(c / 255) of the claim
PiecewiseLin(c) ==
    IF NumberAtMost(sRGB(c), LinearLimit)
    THEN NumberDividedBy(sRGB(c), LinearSlope)
    ELSE PowTable[c + 1]

\* whether the luminance of d is at least that of c
NotDarker(c, d) ==
    NumberAtLeast(getRelativeLuminance(d), getRelativeLuminance(c))

\* C10: the luminance is the weighted sum of the piecewise-linearised
\* channels, 0 for black, 1 for white, within [0, 1], and does not decrease
\* when a channel grows.
C10_LuminanceFormula ==
    pc = "done" =>
        LET c == rgb[1]
        IN  /\ luminance =
                   NumberPlus(
                       NumberPlus(NumberTimes(RedWeight, PiecewiseLin(c.r)),
                                  NumberTimes(GreenWeight, PiecewiseLin(c.g))),
                       NumberTimes(BlueWeight, PiecewiseLin(c.b)))
            /\ c = BlackRGB => luminance = Zero
            /\ c = WhiteRGB => luminance = NumberOfInt(1)
            /\ NumberAtMost(luminance, NumberOfInt(1))
            /\ c.r < 255 => NotDarker(c, [c EXCEPT !.r = @ + 1])
            /\ c.g < 255 => NotDarker(c, [c EXCEPT !.g = @ + 1])
            /\ c.b < 255 => NotDarker(c, [c EXCEPT !.b = @ + 1])

\* C10 witness: the luminance of white was computed and is 1.
C10_Witness ==
    /\ pc = "done"
    /\ rgb = Some(WhiteRGB)
    /\ luminance = NumberOfInt(1)

(***************************************************************************)
(* Properties of the duration parser                                       *)
(***************************************************************************)
\* C11: every spelling of n milliseconds (<n>ms, the same span in seconds,
\* and the shorthand <n>ms <keyword> given to
\* extractDurationFromTransition) parses to the number n.
C11_EquivalentSpellings ==
    pc = "done" => duration = Some(NumberOfInt(input.ms))

\* a number immediately followed by ms or by s, and nothing else
WellFormedDuration(t) ==
    LET n == NumberPrefix(t)
    IN  /\ n # Null
        /\ Slice(t, n[1].end, Len(t)) \in {<<"m", "s">>, <<"s">>}

\* C12: parseDurationToMs returns a number exactly for the tokens that are
\* a number immediately followed by ms or s and nothing else, and null for
\* every other token.
C12_OnlyWellFormedTokensParse ==
    pc = "done" => (duration # Null <=> WellFormedDuration(transition))

\* the positions of the parts that are well-formed durations
ValidParts(parts) == {k \in 1..Len(parts) : WellFormedDuration(parts[k])}

Min(S) == CHOOSE x \in S : \A y \in S : x <= y

\* C13: extractDurationFromTransition returns the millisecond count of the
\* first whitespace-separated token that is a valid duration, whatever the
\* tokens before and after it, and null when no token is a valid duration.
C13_FirstValidDuration ==
    pc = "done" =>
        LET parts == SplitOnWhiteSpace(transition)
        IN  IF ValidParts(parts) = {} THEN duration = Null
            ELSE duration = parseDurationToMs(parts[Min(ValidParts(parts))])

(***************************************************************************)
(* Properties of the theme persistence                                     *)
(***************************************************************************)
\* the argument of the last setStoredTheme call, if there was a call
LastCall == IF calls = <<>> THEN Null ELSE Some(calls[Len(calls)])

\* C14: from empty, working storage and after any sequence of
\* setStoredTheme calls, getStoredTheme returns the argument of the last
\* call when that was 'light' or 'dark' and null otherwise; after
\* setStoredTheme('system') the key is missing.
C14_StorageRoundTrip ==
    /\ pc = "read" =>
           returned = (IF LastCall \in {Some("light"), Some("dark")}
                       THEN LastCall ELSE Null)
    /\ LastCall = Some("system") => storage = Null

C14_Witness ==
    /\ pc = "read"
    /\ calls = <<"dark", "system", "light">>
    /\ returned = Some("light")

\* what a read of the key is to return
ExpectedStoredTheme(st, acc) ==
    IF acc # "blocked" /\ st \in {Some("light"), Some("dark")} THEN st
    ELSE Null

\* C15: a getStoredTheme call returns the stored value exactly when that is
\* the string 'light' or 'dark' and the key can be read; for a missing key,
\* any other string and a throwing localStorage it returns null; it never
\* throws and leaves the stored value as it was.
C15_StoredThemeRead ==
    [][pc' = "read" =>
          /\ returned' = ExpectedStoredTheme(storage, access)
          /\ ~threw'
          /\ storage' = storage]_vars

C15_Witness ==
    /\ pc = "read"
    /\ access = "ok"
    /\ storage = Some("system")
    /\ returned = Null

\* what a mount after updateTheme(t), t light or dark, is to give; pc is
\* "mounted" when the mount effect has just run
RestoredFromLastUpdate ==
    /\ theme = lastUpdate[1]
    /\ darkClass = (lastUpdate[1] = "dark")

\* C16 as stated: after updateTheme(t), t light or dark, a later mount sets
\* the theme state to t and the root has the dark class exactly when t is
\* dark.
C16_PreferencePersists ==
    (pc = "mounted" /\ lastUpdate \in {Some("light"), Some("dark")})
        => RestoredFromLastUpdate

\* C16 as amended: the same, when localStorage reads and writes succeed.
C16_PreferencePersistsInWorkingStorage ==
    (pc = "mounted" /\ lastUpdate \in {Some("light"), Some("dark")}
     /\ access = "ok")
        => RestoredFromLastUpdate

C16_Witness ==
    /\ pc = "mounted"
    /\ access = "ok"
    /\ ~prefersDark
    /\ lastUpdate = Some("dark")
    /\ theme = "dark"
    /\ darkClass

\* the stored value is neither missing nor a theme that is read back
Corrupted(st) == st # Null /\ st \notin {Some("light"), Some("dark")}

\* a mount by itself: the effect runs right after the first render, with no
\* click in between
MountCompletes == pc = "rendered" /\ pc' = "mounted"

\* C17: with localStorage throwing on every access, or a corrupted stored
\* value, a mount does not throw, leaves the theme state 'system' and the
\* root has the dark class exactly when the system prefers dark; with
\* localStorage throwing, updateTheme(t) still sets the theme state and the
\* class for t.
C17_ErrorFallback ==
    [][/\ (MountCompletes /\ (access = "blocked" \/ Corrupted(storage)))
              => (~threw' /\ theme' = "system" /\ darkClass' = prefersDark)
       /\ (pc' = "updated" /\ access = "blocked")
              => /\ ~threw'
                 /\ theme' = lastUpdate'[1]
                 /\ darkClass' = (IF theme' = "system" THEN prefersDark
                                  ELSE theme' = "dark")]_vars

(***************************************************************************)
(* Properties of the token checks                                          *)
(***************************************************************************)
\* both tokens of the pair are declared in the scope and their resolved
\* colours have a contrast ratio of at least 4.5
DefinedPairMeetsAA(pair, own, root) ==
    /\ MapHas(own, pair.text)
    /\ MapHas(own, pair.bg)
    /\ MeetsAA(getContrastRatio(resolveVariable(own[pair.text], own, root),
                                resolveVariable(own[pair.bg], own, root)))

\* C18: the contrast check passes only if each of the five pairs of the
\* light scope and each of the five of the dark scope has both its tokens
\* declared and a non-null contrast ratio of at least 4.5; no pair with a
\* missing token is left out of the check.
C18_EveryDefinedPairIsChecked ==
    (pc = "done" /\ passed) =>
        /\ \A i \in 1..Len(lightModeColorPairs) :
               DefinedPairMeetsAA(lightModeColorPairs[i], rootVars, rootVars)
        /\ \A i \in 1..Len(darkModeColorPairs) :
               DefinedPairMeetsAA(darkModeColorPairs[i], ownVars, rootVars)

\* the resolved values of the --color-bg-* tokens the .dark scope declares
ResolvedDarkBackgrounds ==
    {resolveVariable(ownVars[k], ownVars, rootVars) :
        k \in {x \in DOMAIN ownVars :
                 StartsWithAt(x, 0, SubSeq(BgPrimary, 1, 11))}}

\* C19: the colours the non-black check examines are the resolved values
\* of the background tokens of the .dark scope, and the check fails when
\* one of them is RGB(0,0,0), whatever the root's neutral tokens hold.
C19_DarkBackgroundsAreExamined ==
    pc = "done" =>
        /\ {examined[i] : i \in 1..Len(examined)} = ResolvedDarkBackgrounds
        /\ (\E c \in ResolvedDarkBackgrounds :
                parseColorToRGB(c) = Some(BlackRGB)) => ~passed

\* the forms of pure black the property names
PureBlackForms ==
    {Black6, Black3, <<"r", "g", "b", "(", "0", ",", "0", ",", "0", ")">>}

\* C20: isPureBlack returns true for #000000, #000 and rgb(0,0,0), and
\* false for every colour that is not pure black.
C20_PureBlackDetected ==
    pc = "done" => (isBlack <=> color1 \in PureBlackForms)

(***************************************************************************)
(* Properties of EconomicSim                                               *)
(***************************************************************************)
SimRendered == pc \in {"rendered", "price", "supply", "reset"}

Shows(message) == \E i \in 1..Len(view.status) : view.status[i] = message

\* 200 - 5 * price, and 0 where that is negative
LinearDemand == IF 200 - 5 * price < 0 THEN 0 ELSE 200 - 5 * price

\* C21: after any sequence of price changes, supply changes and resets the
\* live region shows the Shortage message exactly when demand > supply, the
\* Surplus message exactly when demand < supply, never both, and nothing
\* when they are equal; the first render shows Shortage, and price 30 at
\* the initial supply shows Surplus.
C21_StatusRegion ==
    SimRendered =>
        /\ Shows(ShortageMessage) <=> LinearDemand > supply
        /\ Shows(SurplusMessage) <=> LinearDemand < supply
        /\ ~(Shows(ShortageMessage) /\ Shows(SurplusMessage))
        /\ LinearDemand = supply => view.status = <<>>
        /\ pc = "rendered" => Shows(ShortageMessage)
        /\ (price = 30 /\ supply = InitialSupply) => Shows(SurplusMessage)

\* a price change has brought demand down to the supply: nothing is shown
C21_Witness ==
    /\ pc = "price"
    /\ price = 20
    /\ supply = InitialSupply
    /\ view.demand = supply
    /\ view.status = <<>>

\* C22: in every state the price input carries aria-valuetext `$<price>`
\* and the supply input carries aria-valuetext `<supply> units`.
C22_ValueTextAnnounced ==
    SimRendered =>
        /\ view.priceInput.ariaValueText = Some(<<"$">> \o DigitsOf(price))
        /\ view.supplyInput.ariaValueText
               = Some(DigitsOf(supply) \o <<" ", "u", "n", "i", "t", "s">>)

(***************************************************************************)
(* Properties of the token test files                                      *)
(***************************************************************************)
PrefixDuration == <<"-", "-", "d", "u", "r", "a", "t", "i", "o", "n", "-">>

\* a token the duration bounds are about: --transition-* or --duration-*
DurationNamed(name) ==
    StartsWithAt(name, 0, PrefixTransition)
    \/ StartsWithAt(name, 0, PrefixDuration)

EffectsRun == pc = "done" /\ input.file = "effects"

SpacingRun == pc = "done" /\ input.file = "spacing"

\* C23: when the effects tests pass, every --transition-* or --duration-*
\* token of the root map has a duration of at least 150 ms and at most
\* 300 ms, and the root map has exactly 3 --transition-* tokens.
C23_DurationBounds ==
    (EffectsRun /\ report.passed) =>
        /\ \A i \in 1..Len(input.tokens) :
               (DurationNamed(input.tokens[i].name)
                    /\ input.tokens[i].form \in TimeForms)
                   => (150 <= input.tokens[i].n /\ input.tokens[i].n <= 300)
        /\ Cardinality({i \in 1..Len(input.tokens) :
               StartsWithAt(input.tokens[i].name, 0, PrefixTransition)}) = 3

\* a token the spacing check is about, and whether its value is <digits>px
SpacingNamed(name) == StartsWithAt(name, 0, PrefixSpacing)

LiteralPixels(d) == SpacingNamed(d.name) /\ d.form \in PixelForms

\* how many --spacing-* tokens have the literal pixel value v
Occurrences(v) ==
    Cardinality({i \in 1..Len(input.tokens) :
                    LiteralPixels(input.tokens[i]) /\ input.tokens[i].n = v})

ScaleValues == {0, 4, 8, 12, 16, 24, 32, 48, 64, 96}

\* C24: the spacing tests pass exactly when the literal pixel values of the
\* --spacing-* tokens are 0, 4, 8, 12, 16, 24, 32, 48, 64 and 96, each once
\* and no other; then every one is a multiple of 4; and parsePixelValue
\* returns the number of a <digits>px value and null for any other value.
C24_SpacingScale ==
    SpacingRun =>
        /\ report.passed <=>
               \A v \in 0..Max(PixelSamples \cup ScaleValues) :
                   Occurrences(v) = IF v \in ScaleValues THEN 1 ELSE 0
        /\ report.passed =>
               \A i \in 1..Len(input.tokens) :
                   LiteralPixels(input.tokens[i])
                       => input.tokens[i].n % 4 = 0
        /\ \A i \in 1..Len(input.tokens) :
               parsePixelValue(tokens[i][2])
                   = IF input.tokens[i].form \in PixelForms
                     THEN Some(NumberOfInt(input.tokens[i].n)) ELSE Null

\* a run that fails only because a value of the scale occurs twice
C24_Witness ==
    /\ SpacingRun
    /\ ~report.passed
    /\ Len(report.judged) = Len(expectedScale) + 1
    /\ {report.judged[i].value : i \in 1..Len(report.judged)}
           = {NumberOfInt(v) : v \in ScaleValues}

\* whether a described spacing token breaks the invariant or is no literal
SpacingOffender(d) ==
    SpacingNamed(d.name) /\ (d.form \notin PixelForms \/ d.n % 4 # 0)

\* C25: the loop over the spacing tokens evaluates every token, and a
\* failure is recorded for each token that is malformed, unresolved or not
\* a multiple of 4, whatever tokens come before it.
C25_EveryTokenEvaluated ==
    SpacingRun =>
        /\ report.loop.evaluated = Len(report.judged)
        /\ \A i \in 1..Len(input.tokens) :
               SpacingOffender(input.tokens[i])
                   => report.loop.failed = Some(input.tokens[i].name)

\* C26: every --spacing-*, --transition-* or --duration-* token of the
\* input appears in the outcome of the run: the run names tokens only in
\* the list it judges, so each such token is in that list.
C26_NoTokenDisappears ==
    pc = "done" =>
        \A i \in 1..Len(tokens) :
            (SpacingNamed(tokens[i][1]) \/ DurationNamed(tokens[i][1]))
                => \E j \in 1..Len(report.judged) :
                       report.judged[j].name = tokens[i][1]

\* C27: no string that contains var(-- is handed to parseDurationToMs or
\* parsePixelValue; such a value goes through resolveVariable first.
C27_ResolverBeforeParser ==
    pc = "done" => \A v \in report.parsed : ~Contains(v, VarOpen)

(***************************************************************************)
(* Properties of resolveVariable on chains and of the running extractor    *)
(***************************************************************************)
\* the value the first lookup of name x finds, or Null
FirstLookup(x) ==
    IF x \in DOMAIN ownVars THEN Some(ownVars[x])
    ELSE IF x \in DOMAIN rootVars THEN Some(rootVars[x])
    ELSE Null

\* C28: a reference var(--x) whose name maps to another reference var(--y)
\* resolves to the text var(--y), whether --y maps to a literal, to nothing
\* or back to var(--x): the call is one lookup step, on cycles too.
C28_SingleDereference ==
    pc # "input" =>
        \A x \in {NameA, NameB} : \A y \in {NameA, NameB} :
            (value = Ref(x) /\ FirstLookup(x) = Some(Ref(y)))
                => resolved = Ref(y)

\* var(--a) has been resolved on a cycle --a: var(--b), --b: var(--a)
C28_Witness ==
    /\ pc = "resolved"
    /\ value = Ref(NameA)
    /\ NameA \in DOMAIN ownVars /\ ownVars[NameA] = Ref(NameB)
    /\ NameB \in DOMAIN ownVars /\ ownVars[NameB] = Ref(NameA)
    /\ resolved = Ref(NameB)

\* every loop iteration moves its index forward: lastIndex of the selector
\* search when a block is entered, i in the brace loop, lastIndex of
\* varRegex when a declaration is set
ScanAdvances ==
    /\ (scan.phase = "exec" /\ scan'.phase = "braces")
           => scan'.lastIndex > scan.lastIndex
    /\ (scan.phase = "braces" /\ scan'.phase = "braces") => scan'.i > scan.i
    /\ (scan.phase = "decls" /\ scan'.phase = "decls")
           => scan'.varIndex > scan.varIndex

\* no index leaves the text it runs over
ScanWithinText ==
    scan.phase # "idle" =>
        /\ scan.lastIndex <= Len(css)
        /\ scan.i <= Len(css)
        /\ scan.varIndex <= Len(scan.block)
        /\ Len(scan.block) <= Len(css)

\* C29: for every text and selector, with unbalanced braces, unclosed
\* blocks, a selector that does not occur or that occurs inside a matched
\* block, the call returns, what it returns is the Map of
\* extractCSSVariables, every loop iteration advances its index, and the
\* indices stay within the text.
C29_ExtractorTerminates ==
    /\ <>(scan.phase = "returned")
    /\ [](scan.phase = "returned"
              => variables = extractCSSVariables(css, selector))
    /\ []ScanWithinText
    /\ [][ScanAdvances]_vars

\* the call has returned a Map for a text whose first block is never
\* closed and holds a second occurrence of the selector
C29_Witness ==
    /\ scan.phase = "returned"
    /\ pc = "done"
    /\ input = <<"open", "open", "a1", "close">>
    /\ selector = SelDark
    /\ MapHas(variables, NameA)

(***************************************************************************)
(* Properties of ThemeToggle after updateTheme                             *)
(***************************************************************************)
\* C30: after any sequence of updateTheme calls on a mounted component with
\* working storage, t being the argument of the last call: the theme state
\* is t, the root has the dark class exactly when t is 'dark' or t is
\* 'system' and the system prefers dark, and the key holds t when t is
\* 'light' or 'dark' and is missing when t is 'system'.
C30_ThemeConsistency ==
    (pc = "updated" /\ mounted /\ access = "ok") =>
        /\ theme = lastUpdate[1]
        /\ darkClass <=> (lastUpdate[1] = "dark"
                          \/ (lastUpdate[1] = "system" /\ prefersDark))
        /\ lastUpdate[1] \in {"light", "dark"} => storage = lastUpdate
        /\ lastUpdate[1] = "system" => storage = Null

\* updateTheme('system') on a system that prefers dark
C30_Witness ==
    /\ pc = "updated"
    /\ mounted
    /\ access = "ok"
    /\ prefersDark
    /\ lastUpdate = Some("system")
    /\ theme = "system"
    /\ darkClass
    /\ storage = Null

====
